---- MODULE Spec2Model ----
(***************************************************************************)
(* Order lifecycle manager of teletrader (src/trader/__init__.py) and the  *)
(* price correction of its signals (src/trader/signal.py).                 *)
(*                                                                         *)
(* Eleven specifications share the variables below:                        *)
(*   SpecSignal  Signal.__init__, Signal.correct, Signal.factor and the    *)
(*               order-type decision of FuturesTrader._place_order, as     *)
(*               pure functions applied to inputs drawn in its Init;       *)
(*   SpecAdmit   the signal queue, the per-coin NamedLock, the admission   *)
(*               cache and the placement retries of _gather_orders;        *)
(*   SpecRetry   the steps of SpecAdmit for two signals of one coin, every *)
(*               retry followed, with fair tasks;                          *)
(*   Spec        the bracket lifecycle: the exchange, the user-stream      *)
(*               handler, close_trades and the watchdog;                   *)
(*   SpecOrphan  the same steps from a saved state whose take-profit is    *)
(*               not listed by its parent, with a fair handler;            *)
(*   SpecDup     the exchange and the handler, with one message of the     *)
(*               user stream delivered twice;                              *)
(*   SpecClose   the exchange, the handler and close_trades on the         *)
(*               entries of two channels and two coins;                    *)
(*   SpecSizing  the steps of SpecAdmit for one signal whose quantity costs*)
(*               more than the slippage allows at the first mark price;    *)
(*   SpecMove    the exchange and the handler on an entry with three       *)
(*               take-profits, which fill in any order;                    *)
(*   SpecSplit   the handler placing the stop-loss and the take-profits    *)
(*               of an entry, for every quantity and number of targets;    *)
(*   SpecFeed    the placement of one signal, the price stream and the     *)
(*               cycles of the watchdog, which resets the subscriptions.   *)
(*                                                                         *)
(* Numbers.  The program computes with Python floats.  The model computes  *)
(* with integers: a price is a whole number of price units (the unit is    *)
(* chosen per input so that every division the code performs is exact on   *)
(* the inputs drawn; ExactInput states this and filters the inputs).       *)
(***************************************************************************)
EXTENDS Integers, Sequences, FiniteSets, TLC

VARIABLES
    \* ---- SpecSignal: one Signal object and one _place_order decision
    sig,        \* the Signal object (a record), see Signal
    orig,       \* the Signal as constructed (history: correct() overwrites its fields)
    mark,       \* self.prices[coin], the mark price handed to correct()
    balance,    \* self.balance
    spc,        \* "new" -> "corrected" -> "decided"
    decision,   \* what _place_order did with the corrected signal
    \* ---- Spec: the tracking map, the exchange and the tasks that work on them
    orders,     \* self.state["orders"]: client order id -> record
    xorders,    \* the exchange's orders: client order id -> [status, kind, sym, side, qty, price]
    xpos,       \* the exchange's positions: <<symbol, position side>> -> amount (lots)
    events,     \* the user stream's queue of ORDER_TRADE_UPDATE messages
    olock,      \* self.olock: the task holding it, or Free
    pc,         \* where each task is
    loc,        \* each task's local variables
    nextId,     \* the number the next generated order id gets (OrderID.random)
    now,        \* time.time(), in seconds
    cancelReq,  \* history: the ids futures_cancel_order was called for
    createReq,  \* history: the number of futures_create_order calls
    open_symbols, \* the watcher's open_symbols (Unbound before the first good pass)
    streams,    \* self.state["streams"], as a set
    hist,       \* history kept for the properties (see InitHist)
    \* ---- SpecAdmit: the queued signals and what admits and serialises them
    procs,      \* the _process task of each queued signal (see Proc)
    clocks,     \* self.clocks._locks: coin -> the task holding that coin's lock, or Free
    sig_cache,  \* self.sig_cache: key -> the time its entry expires
    prices      \* self.prices: coin -> mark price, None when not received yet

sigVars == <<sig, orig, mark, balance, spc, decision>>

brVars == <<orders, xorders, xpos, events, olock, pc, loc, nextId, now, cancelReq,
            createReq, open_symbols, streams, hist>>

admVars == <<procs, clocks, sig_cache, prices>>

vars == <<sigVars, brVars, admVars>>

None == 0

\* ------------------------------------------------------------------ helpers

Abs(x) == IF x < 0 THEN 0 - x ELSE x

Min(a, b) == IF a < b THEN a ELSE b

Max(a, b) == IF a < b THEN b ELSE a

Last(s) == s[Len(s)]

RECURSIVE Pow10(_)
Pow10(n) == IF n = 0 THEN 1 ELSE 10 * Pow10(n - 1)

RECURSIVE Insert(_, _)
Insert(x, s) ==
    IF s = <<>> THEN <<x>>
    ELSE IF x <= Head(s) THEN <<x>> \o s
    ELSE <<Head(s)>> \o Insert(x, Tail(s))

\* sorted(): ascending
RECURSIVE sorted(_)
sorted(s) == IF s = <<>> THEN <<>> ELSE Insert(Head(s), sorted(Tail(s)))

\* x * 10^n for n >= 0, saturating at cap (cap is a power of ten)
RECURSIVE SatMul10(_, _, _)
SatMul10(x, n, cap) ==
    IF n = 0 THEN x
    ELSE IF x >= cap \div 10 THEN cap
    ELSE SatMul10(10 * x, n - 1, cap)

\* ------------------------------------------------------------ Signal (signal.py)

MIN_PRECISION == 6

MIN_LEVERAGE == 25

DEFAULT_LEVERAGE == 25

\* DEFAULT_STOP = 0.08, in percent
DEFAULT_STOP_PCT == 8

\* The factor 10^k that factor() returns is kept as its exponent k; Scale applies it.
Scale(v, k) == IF k >= 0 THEN v * Pow10(k) ELSE v \div Pow10(0 - k)

\* dist(i) < dist(i-1) in factor(), for dist(i) = abs(sig_p * 10^(i-6) - mark_p) / mark_p.
\* Both distances are multiplied by mark_p * 10^(7-i) (i <= 7) or by mark_p (i > 7); the
\* product that can leave the machine integers saturates at a value beyond which the
\* comparison no longer changes (the scaled term is then the larger one by far).
DistImproves(sig_p, mark_p, i) ==
    IF i <= 7
    THEN LET b == SatMul10(mark_p, 7 - i, 1000000000)
         IN  Abs(10 * sig_p - b) < Abs(sig_p - b)
    ELSE LET a == SatMul10(sig_p, i - 7, 100000000)
         IN  Abs(10 * a - mark_p) < Abs(a - mark_p)

\* for i in range(MIN_PRECISION * 2): the loop keeps factor i-1 and looks at i
RECURSIVE FactorLoop(_, _, _)
FactorLoop(sig_p, mark_p, i) ==
    IF i = MIN_PRECISION * 2 THEN i - 1 - MIN_PRECISION
    ELSE IF DistImproves(sig_p, mark_p, i) THEN FactorLoop(sig_p, mark_p, i + 1)
    ELSE i - 1 - MIN_PRECISION

\* Signal.factor: the exponent of the chosen power of ten (the first iteration always
\* improves on math.inf, so the loop is entered at i = 1 holding factor 10^-6)
factor(sig_p, mark_p) == FactorLoop(sig_p, mark_p, 1)

\* is_partial: _is_long was given to the constructor
is_partial(s) == s.isl # "none"

\* Signal.is_long, read from the fields as they are when it is evaluated
is_long(s) == IF is_partial(s) THEN s.isl = "long" ELSE s.targets[1] > s.entries[1]

is_short(s) == ~is_long(s)

\* The assertions of Signal.__init__ (skipped for a partial signal)
RECURSIVE TargetsMonotone(_, _, _)
TargetsMonotone(prev, ts, long) ==
    IF ts = <<>> THEN TRUE
    ELSE /\ IF long THEN Head(ts) > prev ELSE Head(ts) < prev
         /\ TargetsMonotone(Head(ts), Tail(ts), long)

\* Signal.__init__: the object built from the arguments (entries sorted, leverage raised
\* to MIN_LEVERAGE, risk in units of DEFAULT_RISK = 1%)
Signal(coin, entries, targets, sl, leverage, risk_factor, isl, tag) ==
    [coin |-> coin, entries |-> sorted(entries), targets |-> targets, sl |-> sl,
     leverage |-> Max(IF leverage # None THEN leverage ELSE DEFAULT_LEVERAGE, MIN_LEVERAGE),
     risk |-> IF risk_factor # None THEN risk_factor ELSE 1,
     isl |-> isl, tag |-> tag,
     wait_entry |-> FALSE, entry |-> None, corrected |-> FALSE]

\* whether Signal.__init__ returns (no assertion fails) for the object s it builds
Accepted(s) ==
    \/ is_partial(s)
    \/ /\ TargetsMonotone(s.entries[1], s.targets, is_long(s))
       /\ s.sl # None => IF is_long(s) THEN s.sl < s.entries[1] ELSE s.sl > Last(s.entries)

ScaleAll(vs, price) == [i \in 1..Len(vs) |-> Scale(vs[i], factor(vs[i], price))]

\* The last loop of correct(): each target moves 1% of its distance to the previous
\* (unmoved) target towards it; is_long is re-read from the fields on every round.
RECURSIVE FrontRun(_, _, _)
FrontRun(s, i, prev) ==
    IF i > Len(s.targets) THEN s
    ELSE LET tgt  == s.targets[i]
             diff == (IF is_long(s) THEN tgt - prev ELSE prev - tgt) \div 100
             new  == IF is_long(s) THEN tgt - diff ELSE tgt + diff
         IN  FrontRun([s EXCEPT !.targets[i] = new], i + 1, tgt)

\* Signal.correct(price) up to the stop-loss (lines 103-116)
CorrectPrices(s, price) ==
    LET s1 == [s EXCEPT !.entries = sorted(ScaleAll(s.entries, price)),
                        !.targets = ScaleAll(s.targets, price)]
        w  == \/ is_long(s1) /\ price < s1.entries[1]
              \/ is_short(s1) /\ price > Last(s1.entries)
        e  == IF w THEN (IF is_long(s1) THEN s1.entries[1] ELSE Last(s1.entries))
                   ELSE (IF is_long(s1) THEN Last(s1.entries) ELSE s1.entries[1])
        l  == IF s.sl = None
              THEN (IF is_long(s1) THEN e - (e * DEFAULT_STOP_PCT) \div 100
                                   ELSE e + (e * DEFAULT_STOP_PCT) \div 100)
              ELSE Scale(s.sl, factor(s.sl, price))
    IN  [s1 EXCEPT !.wait_entry = w, !.entry = e, !.sl = l, !.corrected = TRUE]

\* Signal.correct(price)
correct(s, price) ==
    LET s2 == CorrectPrices(s, price)
    IN  FrontRun(s2, 1, s2.entry)

\* (mutant of max_entry5: there is no offset)
max_entry5_none(s) == 5 * s.entry

\* (mutant of max_entry5: the offset is the whole distance to the first target)
max_entry5_whole(s) == 5 * s.entry + 5 * (s.targets[1] - s.entry)

\* Signal.max_entry, times 5: entry + (targets[0] - entry) * 0.2
max_entry5(s) == 5 * s.entry + (s.targets[1] - s.entry)

\* -------------------------------------------------- exact fractions <<num, den>>

RECURSIVE Gcd(_, _)
Gcd(a, b) == IF b = 0 THEN Abs(a) ELSE Gcd(Abs(b), Abs(a) % Abs(b))

Frac(n, d) ==
    LET g == Gcd(n, d)
    IN  IF d < 0 THEN <<(0 - n) \div g, (0 - d) \div g>> ELSE <<n \div g, d \div g>>

FMul(x, y) ==
    LET g1 == Gcd(x[1], y[2])
        g2 == Gcd(y[1], x[2])
    IN  IF x[1] = 0 \/ y[1] = 0 THEN <<0, 1>>
        ELSE Frac((x[1] \div g1) * (y[1] \div g2), (x[2] \div g2) * (y[2] \div g1))

\* x / y, y # 0
FDiv(x, y) == FMul(x, <<y[2], y[1]>>)

\* x > y
FGreater(x, y) ==
    LET g == Gcd(x[2], y[2])
    IN  x[1] * (y[2] \div g) > y[1] * (x[2] \div g)

\* round(x) of Python 3: to the nearest integer, a tie to the even one
FRound(x) ==
    LET n == x[1]
        d == x[2]
        f == IF n >= 0 THEN n \div d ELSE 0 - ((0 - n + d - 1) \div d)
        r == n - f * d
    IN  IF 2 * r > d THEN f + 1
        ELSE IF 2 * r < d THEN f
        ELSE IF f % 2 = 0 THEN f ELSE f + 1

\* ------------------------------------------- _place_order, lines 252-281 (__init__.py)

\* PRICE_SLIPPAGE = 1.5, as the fraction 3/2
PRICE_SLIPPAGE == <<3, 2>>

\* percent of correct(): entry / sl - 1 for a long, 1 - entry / sl for a short
percent(s) == IF is_long(s) THEN Frac(s.entry - s.sl, s.sl) ELSE Frac(s.sl - s.entry, s.sl)

\* fraction of correct(): risk / (percent * leverage), risk = 0.01 * risk factor
fraction(s) == FDiv(Frac(s.risk, 100), FMul(percent(s), <<s.leverage, 1>>))

\* _round_qty for an instrument whose LOT_SIZE minQty is 0.001: the quantity as a whole
\* number of lots
round_qty(q) == FRound(FMul(q, <<1000, 1>>))

NoDecision == [kind |-> "none", id |-> "none", qty |-> 0, stop |-> 0, limit5 |-> 0]

\* What _place_order does with the corrected signal s at mark price `price`:
\*   "error"                 an unclassified exception (a ZeroDivisionError)
\*   "InsufficientQuantity"  line 260
\*   "EntryCrossed"          line 273
\*   "STOP" / "MARKET"       the order handed to futures_create_order (qty in lots,
\*                           stopPrice = entry, price = max_entry kept times 5, id the
\*                           prefix of newClientOrderId)
place_decision(s, price, bal) ==
    IF s.sl = 0 \/ percent(s)[1] = 0 \/ bal = 0 THEN [NoDecision EXCEPT !.kind = "error"]
    ELSE
    LET alloc_funds == FMul(<<bal, 1>>, fraction(s))
        quantity    == FDiv(alloc_funds, Frac(price, s.leverage))
        qty         == round_qty(quantity)
        est_funds   == FDiv(FMul(Frac(qty, 1000), <<s.entry, 1>>), <<s.leverage, 1>>)
        crossed     == \/ is_long(s) /\ 5 * price > max_entry5(s)
                       \/ is_short(s) /\ 5 * price < max_entry5(s)
    IN  IF FGreater(FDiv(est_funds, alloc_funds), PRICE_SLIPPAGE)
        THEN [NoDecision EXCEPT !.kind = "InsufficientQuantity"]
        ELSE IF crossed THEN [NoDecision EXCEPT !.kind = "EntryCrossed"]
        ELSE IF s.wait_entry
        THEN [kind |-> "STOP", id |-> "wait", qty |-> qty, stop |-> s.entry,
              limit5 |-> max_entry5(s)]
        ELSE [kind |-> "MARKET", id |-> "mrkt", qty |-> qty, stop |-> 0, limit5 |-> 0]

\* ------------------------------------------------------------------ SpecSignal

\* The signal of the sizing example: BTC, long, entries [39793.5], stop 39792, targets
\* [40000, 41000, 41500], risk factor 1, leverage 20; one price unit is 0.001 USDT.
BTCSignal ==
    Signal("BTC", <<39793500>>, <<40000000, 41000000, 41500000>>, 39792000, 20, 1, "none", "p1")

\* The signal of TestVIPBB.test_1 (test_signal.py:1292), written in thousands as its
\* provider does; one price unit is 0.1 USDT.
VIPBBSignal ==
    Signal("BTC", <<371, 363>>, <<380, 390, 414, 422>>, 344, 25, None, "none", "p1")

\* Signals around one order of magnitude; one price unit is 0.0001 USDT.
SmallSignals ==
    { Signal("ADA", e, t, l, None, None, "none", "p1") :
        e \in {<<100000>>, <<110000>>, <<110000, 100000>>},
        t \in {<<105000, 120000>>, <<120000, 200000>>, <<120000, 130000>>, <<90000, 80000>>},
        l \in {None, 90000, 120000} }

SignalInputs ==
    (SmallSignals \X {95000, 100000, 112000, 1000000, 10000})
        \cup ({BTCSignal} \X {39700000, 39800000, 39900000})
        \cup ({VIPBBSignal} \X {360000})

ExactScale(v, price) ==
    LET k == factor(v, price)
    IN  IF k >= 0 THEN TRUE ELSE v % Pow10(0 - k) = 0

RECURSIVE ExactFrontRun(_, _, _)
ExactFrontRun(ts, i, prev) ==
    IF i > Len(ts) THEN TRUE
    ELSE Abs(ts[i] - prev) % 100 = 0 /\ ExactFrontRun(ts, i + 1, ts[i])

\* Every division of correct(), and the one of max_entry, is exact on this input
ExactInput(s, price) ==
    /\ \A i \in 1..Len(s.entries) : ExactScale(s.entries[i], price)
    /\ \A i \in 1..Len(s.targets) : ExactScale(s.targets[i], price)
    /\ s.sl # None => ExactScale(s.sl, price)
    /\ LET c == CorrectPrices(s, price)
       IN  /\ (s.sl = None) => (c.entry * DEFAULT_STOP_PCT) % 100 = 0
           /\ ExactFrontRun(c.targets, 1, c.entry)
           /\ Abs(correct(s, price).targets[1] - c.entry) % 5 = 0

\* ===================================================== the bracket lifecycle (Spec)
\* The tracking map self.state["orders"], the exchange, the user-stream handler
\* (_subscribe_futures_user._handler), the watchdog (_watch_orders._watcher) and the
\* close command (close_trades).  Prices are integers, quantities are lots, a symbol
\* is written as its coin (the "USDT" suffix is dropped).

WAIT_ORDER_EXPIRY == 86400
NEW_ORDER_TIMEOUT == 300
MAX_TARGETS == 5

MaxTime == 86400     \* the clock stops here
MaxEvents == 1       \* the user stream holds at most this many undelivered messages
MaxId == 7           \* the last order id an operation may generate

Tasks == {"handler", "watcher", "cmd"}
Free == "free"
Unbound == {"<unbound>"}
NoOrd == <<"none", 0>>

\* OrderID (lines 41-82): an id is <<prefix, number>>
is_wait(id) == id[1] = "wait"
is_market(id) == id[1] = "mrkt"
is_stop_loss(id) == id[1] = "stop"
is_target(id) == id[1] = "trgt"
is_entry(id) == is_wait(id) \/ is_market(id)

\* the record _place_order stores (lines 286-300); s_ord = NoOrd is the absent key
EntryRecord(qty, sym, side, ent, sl, tgt, tag, crt) ==
    [qty |-> qty, sym |-> sym, side |-> side, ent |-> ent, sl |-> sl, tgt |-> tgt,
     tag |-> tag, crt |-> crt, t_ord |-> <<>>, t_q |-> <<>>, s_ord |-> NoOrd]

\* the record stored for a take-profit or a stop-loss (lines 334-337, 472-475)
ChildRecord(parent, filled) == [parent |-> parent, filled |-> filled]

PositionSide(side) == IF side = "BUY" THEN "LONG" ELSE "SHORT"

\* an order as the exchange keeps it
XOrder(status, kind, sym, side, pside, qty, price) ==
    [status |-> status, kind |-> kind, sym |-> sym, side |-> side, pside |-> pside,
     qty |-> qty, price |-> price]

CloseSide(side) == IF side = "BUY" THEN "SELL" ELSE "BUY"

Event(id, status, ap) == [c |-> id, X |-> status, ap |-> ap]

NoLocal == [msg |-> Event(NoOrd, "none", 0), parent |-> NoOrd, price |-> None,
            qty |-> None, ret |-> "none", todo |-> <<>>, syms |-> Unbound]

\* map helpers: dict.pop(key, None), dict[key] = value
Pop(m, k) == [x \in DOMAIN m \ {k} |-> m[x]]
PopAll(m, ks) == [x \in DOMAIN m \ ks |-> m[x]]
Put(m, k, v) == [x \in DOMAIN m \cup {k} |-> IF x = k THEN v ELSE m[x]]
Range(s) == {s[i] : i \in 1..Len(s)}

RECURSIVE Sum(_)
Sum(s) == IF s = <<>> THEN 0 ELSE Head(s) + Sum(Tail(s))

\* ---- the exchange
\* futures_cancel_order: an open order is cancelled, anything else is an error that
\* _cancel_order (lines 670-675) swallows
XCancel(xo, id) ==
    IF id \in DOMAIN xo /\ xo[id].status = "NEW"
    THEN [xo EXCEPT ![id].status = "CANCELED"] ELSE xo

RECURSIVE XCancelAll(_, _)
XCancelAll(xo, ids) ==
    IF ids = <<>> THEN xo ELSE XCancelAll(XCancel(xo, Head(ids)), Tail(ids))

PosKey(sym, pside) == <<sym, pside>>
Coins == {"ADA", "XRP"}
PosKeys == Coins \X {"LONG", "SHORT"}

\* an order that opens the position adds to it, one that closes takes from it
XApplyFill(xp, o) ==
    LET k == PosKey(o.sym, o.pside)
    IN  IF PositionSide(o.side) = o.pside
        THEN [xp EXCEPT ![k] = @ + o.qty]
        ELSE [xp EXCEPT ![k] = Max(0, @ - o.qty)]

\* ---- the state a run starts from: the map init(state) loads (main.py reads it from
\* STATE_PATH) and the exchange as it is then
E1 == <<"wait", 1>>
E2 == <<"mrkt", 2>>
T0 == <<"trgt", 3>>

E1Record == EntryRecord(4, "ADA", "BUY", 100, 90, <<110, 120>>, "p1", 0)
E2Record == EntryRecord(2, "ADA", "BUY", 105, 95, <<115>>, "p2", 0)

NoPositions == [k \in PosKeys |-> 0]

\* one stop-limit entry waiting on the exchange
SnapshotWait ==
    [orders |-> (E1 :> E1Record),
     xorders |-> (E1 :> XOrder("NEW", "STOP", "ADA", "BUY", "LONG", 4, 100)),
     xpos |-> NoPositions,
     events |-> <<>>]

\* one market entry whose fill is still in the user stream
SnapshotMarket ==
    [orders |-> (E2 :> E2Record),
     xorders |-> (E2 :> XOrder("FILLED", "MARKET", "ADA", "BUY", "LONG", 2, 105)),
     xpos |-> [NoPositions EXCEPT ![PosKey("ADA", "LONG")] = 2],
     events |-> <<Event(E2, "FILLED", 105)>>]

\* a saved map with a take-profit record that its parent's t_ord does not list, the
\* case lines 424-430 of _move_stop_loss are written for
SnapshotOrphan ==
    [orders |-> (E2 :> E2Record) @@ (T0 :> ChildRecord(E2, FALSE)),
     xorders |-> (E2 :> XOrder("FILLED", "MARKET", "ADA", "BUY", "LONG", 2, 105))
                 @@ (T0 :> XOrder("NEW", "LIMIT", "ADA", "SELL", "LONG", 1, 110)),
     xpos |-> [NoPositions EXCEPT ![PosKey("ADA", "LONG")] = 2],
     events |-> <<Event(E2, "FILLED", 105)>>]

Snapshots == {SnapshotWait, SnapshotMarket}

\* no message was delivered twice
NoDup == [armed |-> FALSE, id |-> NoOrd, orders |-> <<>>, cancelReq |-> {}, nextId |-> 0]

InitHist == [expired |-> {},    \* the entries the expiry step removed
             fresh |-> FALSE,   \* nothing changed since the last reconciliation run
             faults |-> FALSE,  \* a request of the last reconciliation pass failed
             dup |-> NoDup,     \* the map and the requests when a message came twice
             seen |-> {},       \* the entries whose FILLED message the handler took
             slreq |-> {}]      \* the stop-loss creations asked: <<entry, stop, qty>>

\* the variables of the other specifications are parked
SigIdle ==
    /\ sig = None /\ orig = None /\ mark = 0 /\ balance = 0
    /\ spc = "off" /\ decision = NoDecision

BrIdle ==
    /\ orders = <<>> /\ xorders = <<>> /\ xpos = NoPositions /\ events = <<>>
    /\ olock = Free /\ pc = [t \in Tasks |-> "off"] /\ loc = [t \in Tasks |-> NoLocal]
    /\ nextId = 1 /\ now = 0 /\ cancelReq = {} /\ createReq = 0
    /\ open_symbols = Unbound /\ streams = {} /\ hist = InitHist

AdmIdle == procs = <<>> /\ clocks = <<>> /\ sig_cache = <<>> /\ prices = <<>>

InitFrom(snapshots) ==
    /\ SigIdle
    /\ AdmIdle
    /\ \E s \in snapshots :
          /\ orders = s.orders
          /\ xorders = s.xorders
          /\ xpos = s.xpos
          /\ events = s.events
    /\ olock = Free
    /\ pc = [t \in Tasks |-> IF t = "watcher" THEN "w_recon" ELSE "idle"]
    /\ loc = [t \in Tasks |-> NoLocal]
    /\ nextId = 4
    /\ now = 0
    /\ cancelReq = {}
    /\ createReq = 0
    /\ open_symbols = Unbound
    /\ streams = {"ADA"}
    /\ hist = InitHist

Init == InitFrom(Snapshots)

InitOrphan == InitFrom({SnapshotOrphan})

\* history: a step that changes the map or the exchange ends the freshness of the
\* last reconciliation run, and the end of a run starts it
Touch ==
    hist' = [hist EXCEPT !.fresh = @ /\ orders' = orders /\ xorders' = xorders
                                     /\ xpos' = xpos]

RunEndFrom(h, t, faults) ==
    IF t = "watcher" /\ pc'[t] = "w_streams"
    THEN hist' = [h EXCEPT !.fresh = TRUE, !.faults = faults]
    ELSE hist' = [h EXCEPT !.faults = faults,
                           !.fresh = @ /\ orders' = orders /\ xorders' = xorders
                                       /\ xpos' = xpos]

RunEnd(t, faults) == RunEndFrom(hist, t, faults)

\* ---- the exchange and the clock
\* an open order fills; a closing order needs a position to close.  The user stream
\* delivers the ORDER_TRADE_UPDATE or, on a dropped connection, loses it.
XFill(id) ==
    /\ id \in DOMAIN xorders
    /\ xorders[id].status = "NEW"
    /\ LET o == xorders[id]
       IN  /\ PositionSide(o.side) # o.pside => xpos[PosKey(o.sym, o.pside)] > 0
           /\ xpos' = XApplyFill(xpos, o)
           /\ xorders' = [xorders EXCEPT ![id].status = "FILLED"]
           /\ \E delivered \in BOOLEAN :
                 IF delivered
                 THEN /\ Len(events) < MaxEvents
                      /\ events' = Append(events, Event(id, "FILLED", o.price))
                 ELSE events' = events
    /\ UNCHANGED <<orders, olock, pc, loc, nextId, now, cancelReq, createReq,
                   open_symbols, streams>>
    /\ UNCHANGED <<sigVars, admVars>>
    /\ Touch

Tick ==
    /\ \E d \in {NEW_ORDER_TIMEOUT, WAIT_ORDER_EXPIRY} :
          /\ now < d
          /\ d <= MaxTime
          /\ now' = d
    /\ hist' = [hist EXCEPT !.fresh = FALSE]
    /\ UNCHANGED <<orders, xorders, xpos, events, olock, pc, loc, nextId, cancelReq,
                   createReq, open_symbols, streams>>
    /\ UNCHANGED <<sigVars, admVars>>

\* ---- the tasks
\* an exception ends what the task was doing: the handler logs it and takes the next
\* message (lines 376-377), the watcher logs a failed reconciliation and goes on with
\* its cycle (lines 493-494)
AfterRaise(t) == IF t = "watcher" THEN "w_streams" ELSE "idle"

\* the task goes on at p with the locals l; a reconciliation that returns hands its
\* open_symbols, l.syms, to the watcher (line 492)
Goto(t, p, l) ==
    /\ pc' = [pc EXCEPT ![t] = p]
    /\ loc' = [loc EXCEPT ![t] = l]
    /\ open_symbols' = IF t = "watcher" /\ p = "w_streams" THEN l.syms
                       ELSE open_symbols

Raise(t) ==
    /\ pc' = [pc EXCEPT ![t] = AfterRaise(t)]
    /\ loc' = [loc EXCEPT ![t] = NoLocal]
    /\ open_symbols' = open_symbols

\* where a call of _place_sl_order or _move_stop_loss returns to: the watcher's loop
\* over sl_orders (lines 624-628) ends with the last of them
Ret(t) ==
    IF loc[t].ret = "w_sl" /\ loc[t].todo = <<>> THEN "w_streams" ELSE loc[t].ret

Back(t) ==
    Goto(t, Ret(t),
         IF Ret(t) = "pco" THEN [NoLocal EXCEPT !.parent = loc[t].parent]
         ELSE IF Ret(t) = "w_sl"
              THEN [NoLocal EXCEPT !.todo = loc[t].todo, !.syms = loc[t].syms]
         ELSE IF Ret(t) = "w_streams" THEN [NoLocal EXCEPT !.syms = loc[t].syms]
         ELSE NoLocal)

\* the user stream may lose the message of a fill
Deliver(evs) ==
    \/ events' = events
    \/ /\ evs # <<>>
       /\ Len(events) + Len(evs) <= MaxEvents
       /\ events' = events \o evs

\* _place_sl_order, lines 451-486.  r is what the exchange answers to the (at most
\* two) futures_create_order calls: "ok" accepts the STOP_MARKET order, at the first
\* call or at the second, "market" rejects the first call with -2021 and accepts the
\* MARKET order, "fail" rejects both.
PlaceSL(ords, xo, xp, parent_id, new_price, quantity, id, r) ==
    LET odata == ords[parent_id]
        old == odata.s_ord
        xo1 == IF old # NoOrd THEN XCancel(xo, old) ELSE xo
        price == IF new_price # None THEN new_price ELSE odata.sl
        qty == IF quantity # None THEN quantity ELSE odata.qty
        kind == IF r = "market" THEN "MARKET" ELSE "STOP_MARKET"
        o == XOrder(IF r = "market" THEN "FILLED" ELSE "NEW", kind, odata.sym,
                    CloseSide(odata.side), PositionSide(odata.side), qty, price)
        done == Put([ords EXCEPT ![parent_id].s_ord = id], id, ChildRecord(parent_id, FALSE))
    IN  [orders |-> IF r = "fail" THEN ords ELSE done,
         xorders |-> IF r = "fail" THEN xo1 ELSE Put(xo1, id, o),
         xpos |-> IF r = "market" THEN XApplyFill(xp, o) ELSE xp,
         evs |-> IF r = "market" THEN <<Event(id, "FILLED", price)>> ELSE <<>>,
         cancels |-> IF old # NoOrd THEN {old} ELSE {}]

\* history: the request lines 459-470 make for the call task t is in
SLRequest(t) ==
    IF loc[t].parent \notin DOMAIN orders THEN {}
    ELSE {<<loc[t].parent,
            IF loc[t].price # None THEN loc[t].price ELSE orders[loc[t].parent].sl,
            IF loc[t].qty # None THEN loc[t].qty ELSE orders[loc[t].parent].qty>>}

PSL(t) ==
    /\ pc[t] = "psl"
    /\ olock = Free
    /\ IF loc[t].parent \notin DOMAIN orders
       THEN /\ Raise(t)
            /\ UNCHANGED <<orders, xorders, xpos, events, nextId, cancelReq>>
       ELSE /\ nextId <= MaxId
            /\ \E r \in {"ok", "market", "fail"} :
                  \E res \in {PlaceSL(orders, xorders, xpos, loc[t].parent, loc[t].price,
                                       loc[t].qty, <<"stop", nextId>>, r)} :
                      /\ orders' = res.orders
                      /\ xorders' = res.xorders
                      /\ xpos' = res.xpos
                      /\ Deliver(res.evs)
                      /\ cancelReq' = cancelReq \cup res.cancels
                      /\ nextId' = IF r = "fail" THEN nextId ELSE nextId + 1
            /\ Back(t)
    /\ UNCHANGED <<olock, now, createReq, streams>>
    /\ UNCHANGED <<sigVars, admVars>>
    /\ RunEndFrom([hist EXCEPT !.slreq = @ \cup SLRequest(t)], t, hist.faults)

\* round(quantity * 0.5) in lots
Half(q) == FRound(<<q, 2>>)

\* the loop of _place_collection_orders, lines 321-338, from target i on; rej are the
\* targets whose futures_create_order the exchange rejects (_create_target_order
\* returns None for them), as it does every order whose quantity is not positive
RECURSIVE PlaceTargets(_, _, _, _, _, _, _, _)
PlaceTargets(ords, xo, oid, i, quantity, remaining, id, rej) ==
    LET odata == ords[oid]
        n == Min(Len(odata.tgt), MAX_TARGETS)
        q == IF i = n THEN remaining ELSE Half(quantity)
        tid == <<"trgt", id>>
        o == XOrder("NEW", "LIMIT", odata.sym, CloseSide(odata.side),
                    PositionSide(odata.side), q, odata.tgt[i])
        ords1 == Put([ords EXCEPT ![oid].t_ord = Append(@, tid), ![oid].t_q = Append(@, q)],
                     tid, ChildRecord(oid, FALSE))
    IN  IF i > n THEN [orders |-> ords, xorders |-> xo, nextId |-> id]
        ELSE IF i \in rej \/ q <= 0
             THEN PlaceTargets(ords, xo, oid, i + 1, q, remaining, id, rej)
             ELSE PlaceTargets(ords1, Put(xo, tid, o), oid, i + 1, q, remaining - q,
                               id + 1, rej)

\* _place_collection_orders after its _place_sl_order, lines 311-338
PCO(t) ==
    /\ pc[t] = "pco"
    /\ olock = Free
    /\ LET oid == loc[t].parent
       IN  IF oid \notin DOMAIN orders
           THEN /\ Raise(t)
                    /\ UNCHANGED <<orders, xorders, nextId>>
           ELSE IF orders[oid].t_ord # <<>>
           THEN /\ Goto(t, "idle", NoLocal)
                    /\ UNCHANGED <<orders, xorders, nextId>>
           ELSE LET n == Min(Len(orders[oid].tgt), MAX_TARGETS)
                IN  /\ nextId + n - 1 <= MaxId
                    /\ \E rej \in SUBSET (1..n) :
                          \E res \in {PlaceTargets(orders, xorders, oid, 1, orders[oid].qty,
                                                    orders[oid].qty, nextId, rej)} :
                              /\ orders' = res.orders
                              /\ xorders' = res.xorders
                              /\ nextId' = res.nextId
                    /\ Goto(t, "idle", NoLocal)
    /\ UNCHANGED <<xpos, events, olock, now, cancelReq, createReq, streams>>
    /\ UNCHANGED <<sigVars, admVars>>
    /\ Touch

\* ---- the user-stream handler, _subscribe_futures_user._handler and _handle_event
\* lines 364-396, 402, 414: the handler takes the next message; an untracked id and
\* a status other than FILLED end the handling, otherwise the prefix of the id
\* selects the branch
H_Check ==
    /\ pc["handler"] = "idle"
    /\ events # <<>>
    /\ olock = Free
    /\ events' = Tail(events)
    /\ LET m == Head(events)
           l == [NoLocal EXCEPT !.msg = m, !.ret = "idle"]
       IN  IF m.c \notin DOMAIN orders \/ m.X # "FILLED"
           THEN Goto("handler", "idle", NoLocal)
           ELSE IF is_entry(m.c) THEN Goto("handler", "h_ent", l)
           ELSE IF is_stop_loss(m.c) THEN Goto("handler", "h_sl", l)
           ELSE Goto("handler", "msl", l)
    /\ UNCHANGED <<orders, xorders, xpos, olock, nextId, now, cancelReq, createReq,
                   streams, hist>>
    /\ UNCHANGED <<sigVars, admVars>>

\* (mutant of H_Ent: _place_collection_orders starts with the take-profits)
H_Ent_direct ==
    /\ pc["handler"] = "h_ent"
    /\ olock = Free
    /\ LET m == loc["handler"].msg
       IN  IF m.c \notin DOMAIN orders
           THEN Raise("handler") /\ UNCHANGED orders
           ELSE /\ orders' = [orders EXCEPT ![m.c].ent = m.ap]
                /\ Goto("handler", "pco", [NoLocal EXCEPT !.parent = m.c])
    /\ UNCHANGED <<xorders, xpos, events, olock, nextId, now, cancelReq, createReq,
                   streams>>
    /\ UNCHANGED <<sigVars, admVars>>
    /\ hist' = [hist EXCEPT !.fresh = @ /\ orders' = orders,
                             !.seen = @ \cup {loc["handler"].msg.c}]

\* lines 397-401: the entry's price becomes the fill price, then
\* _place_collection_orders starts with _place_sl_order(order_id)
H_Ent ==
    /\ pc["handler"] = "h_ent"
    /\ olock = Free
    /\ LET m == loc["handler"].msg
       IN  IF m.c \notin DOMAIN orders
           THEN Raise("handler") /\ UNCHANGED orders
           ELSE /\ orders' = [orders EXCEPT ![m.c].ent = m.ap]
                /\ Goto("handler", "psl", [NoLocal EXCEPT !.parent = m.c, !.ret = "pco"])
    /\ UNCHANGED <<xorders, xpos, events, olock, nextId, now, cancelReq, createReq,
                   streams>>
    /\ UNCHANGED <<sigVars, admVars>>
    /\ hist' = [hist EXCEPT !.fresh = @ /\ orders' = orders,
                             !.seen = @ \cup {loc["handler"].msg.c}]

\* lines 403-413: a stop-loss was hit
H_SL ==
    /\ pc["handler"] = "h_sl"
    /\ olock = Free
    /\ LET id == loc["handler"].msg.c
       IN  IF id \notin DOMAIN orders
           THEN UNCHANGED <<orders, xorders, cancelReq>>
           ELSE LET sl == orders[id]
                    ords1 == Pop(orders, id)
                IN  IF sl.parent \notin DOMAIN ords1
                    THEN orders' = ords1 /\ UNCHANGED <<xorders, cancelReq>>
                    ELSE LET parent == ords1[sl.parent]
                         IN  /\ orders' = PopAll(ords1, {sl.parent} \cup Range(parent.t_ord))
                             /\ xorders' = XCancelAll(xorders, parent.t_ord)
                             /\ cancelReq' = cancelReq \cup Range(parent.t_ord)
    /\ Goto("handler", "idle", NoLocal)
    /\ UNCHANGED <<xpos, events, olock, nextId, now, createReq, streams>>
    /\ UNCHANGED <<sigVars, admVars>>
    /\ Touch

IndexOf(s, x) == CHOOSE i \in 1..Len(s) : s[i] = x /\ \A j \in 1..(i - 1) : s[j] # x

\* _move_stop_loss, lines 418-449, for the take-profit in loc[t].msg; the handler
\* calls it for a FILLED take-profit and the watcher for a take-profit it found filled
MSL(t) ==
    /\ pc[t] = "msl"
    /\ olock = Free
    /\ LET tp_id == loc[t].msg.c
           ords1 == [orders EXCEPT ![tp_id].filled = TRUE]
           pid == orders[tp_id].parent
           parent == orders[pid]
           targets == parent.t_ord
           rest == PopAll(orders, {pid} \cup Range(targets))
       IN  IF tp_id \notin DOMAIN orders
           THEN Raise(t) /\ UNCHANGED <<orders, xorders, cancelReq, olock>>
           ELSE IF pid \notin DOMAIN orders
           THEN Raise(t) /\ orders' = ords1 /\ UNCHANGED <<xorders, cancelReq, olock>>
           ELSE IF tp_id \notin Range(targets)
           THEN /\ orders' = ords1
                /\ UNCHANGED <<xorders, cancelReq>>
                /\ IF parent.s_ord = NoOrd
                   THEN Back(t) /\ UNCHANGED olock
                   \* line 429: close_trades is awaited with olock held, and its first
                   \* statement acquires olock
                   ELSE Goto(t, "ct_wait", loc[t]) /\ olock' = t
           ELSE IF tp_id = Last(targets)
           THEN /\ UNCHANGED olock
                /\ IF parent.s_ord \notin DOMAIN rest
                   THEN Raise(t) /\ orders' = rest /\ UNCHANGED <<xorders, cancelReq>>
                   ELSE /\ orders' = Pop(rest, parent.s_ord)
                        /\ xorders' = XCancel(xorders, parent.s_ord)
                        /\ cancelReq' = cancelReq \cup {parent.s_ord}
                        /\ Back(t)
           ELSE /\ orders' = ords1
                /\ UNCHANGED <<xorders, cancelReq, olock>>
                /\ Goto(t, "psl",
                        [NoLocal EXCEPT !.parent = pid, !.price = parent.ent,
                                        !.qty = Sum(SubSeq(parent.t_q, IndexOf(targets, tp_id) + 1,
                                                           Len(parent.t_q))),
                                        !.ret = loc[t].ret, !.todo = loc[t].todo,
                                        !.syms = loc[t].syms])
    /\ UNCHANGED <<xpos, events, nextId, now, createReq, streams>>
    /\ UNCHANGED <<sigVars, admVars>>
    /\ RunEnd(t, hist.faults)

\* the ids of a set in the order they were generated, which is the order the dict
\* lists them in
RECURSIVE IdSeq(_)
IdSeq(S) ==
    IF S = {} THEN <<>>
    ELSE LET m == CHOOSE x \in S : \A y \in S : x[2] <= y[2]
         IN  <<m>> \o IdSeq(S \ {m})

Tags == {"p1", "p2"}

\* close_trades(tag) without a coin
AnyCoin == "*"

\* close_trades, lines 154-196, for the entries in ids: the children are cancelled,
\* what the unfilled take-profits hold is closed with a MARKET order (accepted by
\* the exchange or not) or, when that is nothing, the entry order is cancelled
UnfilledQty(ords, order) ==
    Sum([i \in 1..Min(Len(order.t_ord), Len(order.t_q)) |->
            IF order.t_ord[i] \in DOMAIN ords /\ ords[order.t_ord[i]].filled
            THEN 0 ELSE order.t_q[i]])

ChildrenOf(order) ==
    order.t_ord \o (IF order.s_ord # NoOrd THEN <<order.s_ord>> ELSE <<>>)

RECURSIVE CloseEntries(_, _, _, _, _, _, _)
CloseEntries(ords, xo, xp, ids, accept, removed, cancels) ==
    IF ids = <<>>
    THEN [orders |-> PopAll(ords, removed), xorders |-> xo, xpos |-> xp,
          cancels |-> cancels, removed |-> removed]
    ELSE LET oid == Head(ids)
             order == ords[oid]
             children == ChildrenOf(order)
             xo1 == XCancelAll(xo, children)
             quantity == UnfilledQty(ords, order)
             k == PosKey(order.sym, PositionSide(order.side))
         IN  IF quantity > 0
             THEN CloseEntries(ords, xo1,
                               IF accept THEN [xp EXCEPT ![k] = Max(0, @ - quantity)] ELSE xp,
                               Tail(ids), accept, removed \cup Range(children),
                               cancels \cup Range(children))
             ELSE CloseEntries(ords, XCancel(xo1, oid), xp, Tail(ids), accept,
                               removed \cup Range(children),
                               cancels \cup Range(children) \cup {oid})

\* (mutant of Matching: the tag is not compared)
Matching_any(ords, tag, coin) ==
    {id \in DOMAIN ords : is_entry(id) /\ (coin = AnyCoin \/ ords[id].sym = coin)}

\* lines 162-165: a child record has no tag and never matches
Matching(ords, tag, coin) ==
    {id \in DOMAIN ords :
        is_entry(id) /\ ords[id].tag = tag /\ (coin = AnyCoin \/ ords[id].sym = coin)}

\* (mutant of CT: close_trades does not take olock)
CT_unlocked ==
    /\ pc["cmd"] = "idle"
    /\ \E tag \in Tags, coin \in {AnyCoin} \cup Coins, accept \in BOOLEAN :
          \E res \in {CloseEntries(orders, xorders, xpos,
                                    IdSeq(Matching(orders, tag, coin)), accept, {}, {})} :
              /\ Matching(orders, tag, coin) # {}
              /\ orders' = res.orders
              /\ xorders' = res.xorders
              /\ xpos' = res.xpos
              /\ cancelReq' = cancelReq \cup res.cancels
    /\ UNCHANGED <<events, olock, pc, loc, nextId, now, createReq, open_symbols,
                   streams>>
    /\ UNCHANGED <<sigVars, admVars>>
    /\ Touch

\* the close command of a channel, for all its coins or for one
CT ==
    /\ pc["cmd"] = "idle"
    /\ olock = Free
    /\ \E tag \in Tags, coin \in {AnyCoin} \cup Coins, accept \in BOOLEAN :
          \E res \in {CloseEntries(orders, xorders, xpos,
                                    IdSeq(Matching(orders, tag, coin)), accept, {}, {})} :
              /\ Matching(orders, tag, coin) # {}
              /\ orders' = res.orders
              /\ xorders' = res.xorders
              /\ xpos' = res.xpos
              /\ cancelReq' = cancelReq \cup res.cancels
    /\ UNCHANGED <<events, olock, pc, loc, nextId, now, createReq, open_symbols,
                   streams>>
    /\ UNCHANGED <<sigVars, admVars>>
    /\ Touch

\* ---- the watchdog: _expire_outdated_orders_and_get_open_symbols, lines 523-630
OpenOrders(xo) == {id \in DOMAIN xo : xo[id].status = "NEW"}

\* lines 538-543: a tracked child that is open on the exchange is not filled
MarkOpen(ords, open) ==
    [id \in DOMAIN ords |->
        IF ~is_entry(id) /\ id \in open THEN [ords[id] EXCEPT !.filled = FALSE]
        ELSE ords[id]]

\* lines 565-582: a child that is not open is looked up with futures_get_order (which
\* raises for the ids in getfail); a FILLED one is recorded as filled, any other is
\* dropped from the map
RECURSIVE CheckChildren(_, _, _, _, _, _)
CheckChildren(ords, xo, oid, children, open, getfail) ==
    IF children = <<>> THEN ords
    ELSE LET cid == Head(children)
             is_filled == /\ cid \notin getfail
                          /\ cid \in DOMAIN xo
                          /\ xo[cid].status = "FILLED"
             next == IF cid \in open THEN ords
                     ELSE IF is_filled THEN Put(ords, cid, ChildRecord(oid, TRUE))
                     ELSE Pop(ords, cid)
         IN  CheckChildren(next, xo, oid, Tail(children), open, getfail)

\* lines 583-599, from child i (0 is the stop-loss) on: a child without a record is
\* a stop-loss to place again or a take-profit to create again (rejected for the
\* indexes in rej)
RECURSIVE ReplaceChildren(_, _, _, _, _)
ReplaceChildren(st, oid, children, i, rej) ==
    IF i >= Len(children) THEN st
    ELSE LET cid == children[i + 1]
             odata == st.orders[oid]
             tracked == cid \in DOMAIN st.orders
             hit == IF tracked THEN st.orders[cid].filled ELSE FALSE
             st1 == [st EXCEPT !.hits = Append(@, hit)]
             tid == <<"trgt", st.nextId>>
             o == XOrder("NEW", "LIMIT", odata.sym, CloseSide(odata.side),
                         PositionSide(odata.side), odata.t_q[i], odata.tgt[i])
         IN  IF tracked THEN ReplaceChildren(st1, oid, children, i + 1, rej)
             ELSE IF i = 0
             THEN ReplaceChildren([st1 EXCEPT !.sl = Append(@, oid)], oid, children, i + 1, rej)
             ELSE IF i \in rej
             THEN ReplaceChildren([st1 EXCEPT !.creates = @ + 1], oid, children, i + 1, rej)
             ELSE ReplaceChildren(
                     [st1 EXCEPT !.creates = @ + 1,
                                 !.nextId = @ + 1,
                                 !.xorders = Put(@, tid, o),
                                 !.orders = Put([@ EXCEPT ![oid].t_ord[i] = tid], tid,
                                                ChildRecord(oid, FALSE))],
                     oid, children, i + 1, rej)

AllHit(hits) == \A i \in 1..Len(hits) : hits[i]

\* lines 546-601: the loop over the records the map had when the loop started
RECURSIVE ReconcileLoop(_, _, _, _, _, _, _, _)
ReconcileLoop(st, ids, snap, open, pos, t, getfail, rej) ==
    IF ids = <<>> THEN st
    ELSE LET oid == Head(ids)
             rest == Tail(ids)
         IN  IF ~is_entry(oid)
             THEN ReconcileLoop(
                     IF snap[oid].parent \notin DOMAIN st.orders
                     THEN [st EXCEPT !.removed = Append(@, oid)] ELSE st,
                     rest, snap, open, pos, t, getfail, rej)
             ELSE LET odata == st.orders[oid]
                      children == <<odata.s_ord>> \o odata.t_ord
                      st1 == [st EXCEPT !.orders = CheckChildren(@, st.xorders, oid, children,
                                                                 open, getfail),
                                        !.hits = <<>>]
                      st2 == ReplaceChildren(st1, oid, children, 0, rej)
                  IN  IF \/ oid \in open
                         \/ (t - odata.crt) < NEW_ORDER_TIMEOUT
                         \/ odata.s_ord = NoOrd
                      THEN ReconcileLoop(st, rest, snap, open, pos, t, getfail, rej)
                      ELSE IF pos[PosKey(odata.sym, PositionSide(odata.side))] = 0
                      THEN ReconcileLoop([st EXCEPT !.removed = Append(@, oid)],
                                         rest, snap, open, pos, t, getfail, rej)
                      ELSE ReconcileLoop(
                              IF Head(st2.hits) \/ AllHit(Tail(st2.hits))
                              THEN [st2 EXCEPT !.removed = Append(@, oid)] ELSE st2,
                              rest, snap, open, pos, t, getfail, rej)

\* lines 603-615: the flagged records go, an entry with its children; a child that
\* is not filled gets a cancel request
RECURSIVE RemoveOutdated(_, _)
RemoveOutdated(st, removed) ==
    IF removed = <<>> THEN st
    ELSE LET oid == Head(removed)
             ords1 == Pop(st.orders, oid)
             parent == st.orders[oid]
             cids == {cid \in Range(<<parent.s_ord>> \o parent.t_ord) : cid \in DOMAIN ords1}
             live == {cid \in cids : ~ords1[cid].filled}
         IN  IF oid \notin DOMAIN st.orders THEN RemoveOutdated(st, Tail(removed))
             ELSE IF ~is_entry(oid)
             THEN RemoveOutdated([st EXCEPT !.orders = ords1], Tail(removed))
             ELSE RemoveOutdated(
                     [st EXCEPT !.orders = PopAll(ords1, cids),
                                !.xorders = XCancelAll(@, IdSeq(live)),
                                !.cancels = @ \cup live],
                     Tail(removed))

Err == <<"error", 0>>

\* lines 619-622: the first filled take-profit of the entry; a take-profit without a
\* record is a KeyError
RECURSIVE FirstFilled(_, _)
FirstFilled(ords, t_ord) ==
    IF t_ord = <<>> THEN NoOrd
    ELSE IF Head(t_ord) \notin DOMAIN ords THEN Err
    ELSE IF ords[Head(t_ord)].filled THEN Head(t_ord)
    ELSE FirstFilled(ords, Tail(t_ord))

\* lines 617-622: sl_orders with the take-profit to move the stop-loss for
SLOrders(ords, sl) ==
    [i \in 1..Len(sl) |->
        [id |-> sl[i],
         tp |-> IF sl[i] \notin DOMAIN ords THEN Err
                ELSE FirstFilled(ords, ords[sl[i]].t_ord)]]

\* the part of the run that holds olock, lines 527-622
Reconcile(ords, xo, pos, id, t, getfail, rej) ==
    LET open == OpenOrders(xo)
        ords1 == MarkOpen(ords, open)
        st0 == [orders |-> ords1, xorders |-> xo, nextId |-> id, creates |-> 0,
                removed |-> <<>>, sl |-> <<>>, cancels |-> {}, hits |-> <<>>]
        st1 == ReconcileLoop(st0, IdSeq(DOMAIN ords1), ords1, open, pos, t, getfail, rej)
        st2 == RemoveOutdated(st1, st1.removed)
        todo == SLOrders(st2.orders, st2.sl)
    IN  [orders |-> st2.orders, xorders |-> st2.xorders, nextId |-> st2.nextId,
         creates |-> st2.creates, cancels |-> st2.cancels, todo |-> todo,
         raised |-> \E i \in 1..Len(todo) : todo[i].tp = Err,
         syms |-> {xo[o].sym : o \in {x \in open : is_entry(x)}}]

\* the ids futures_get_order may fail for with an effect: the FILLED children of
\* the tracked entries
Asked(ords, xo) ==
    {cid \in DOMAIN xo :
        /\ xo[cid].status = "FILLED"
        /\ \E id \in DOMAIN ords :
              is_entry(id) /\ cid \in Range(<<ords[id].s_ord>> \o ords[id].t_ord)}

\* the take-profit indexes a create request may be made for
Wanted(ords, xo) ==
    {i \in 1..MAX_TARGETS : \E id \in DOMAIN ords :
        /\ is_entry(id)
        /\ i <= Len(ords[id].t_ord)
        /\ ords[id].t_ord[i] \notin OpenOrders(xo)}

W_Recon ==
    /\ pc["watcher"] = "w_recon"
    /\ olock = Free
    /\ \E getfail \in SUBSET Asked(orders, xorders), rej \in SUBSET Wanted(orders, xorders) :
          \E res \in {Reconcile(orders, xorders, xpos, nextId, now, getfail, rej)} :
              /\ res.nextId <= MaxId + 1
              /\ UNCHANGED <<xpos, events, olock, now, streams>>
              /\ UNCHANGED <<sigVars, admVars>>
              /\ orders' = res.orders
              /\ xorders' = res.xorders
              /\ nextId' = res.nextId
              /\ createReq' = res.creates
              /\ cancelReq' = cancelReq \cup res.cancels
              /\ IF res.raised THEN Raise("watcher")
                 ELSE IF res.todo = <<>>
                 THEN Goto("watcher", "w_streams", [NoLocal EXCEPT !.syms = res.syms])
                 ELSE Goto("watcher", "w_sl",
                           [NoLocal EXCEPT !.syms = res.syms, !.todo = res.todo])
              /\ RunEnd("watcher", getfail # {} \/ rej # {})

\* lines 624-628: the next of sl_orders
W_SL ==
    /\ pc["watcher"] = "w_sl"
    /\ loc["watcher"].todo # <<>>
    /\ LET o == Head(loc["watcher"].todo)
           l == [NoLocal EXCEPT !.syms = loc["watcher"].syms,
                                !.todo = Tail(loc["watcher"].todo), !.ret = "w_sl"]
       IN  IF o.tp # NoOrd
           THEN Goto("watcher", "msl", [l EXCEPT !.msg = Event(o.tp, "FILLED", 0)])
           ELSE Goto("watcher", "psl", [l EXCEPT !.parent = o.id])
    /\ UNCHANGED <<orders, xorders, xpos, events, olock, nextId, now, cancelReq,
                   createReq, streams, hist>>
    /\ UNCHANGED <<sigVars, admVars>>

\* lines 508-513: what the expiry step removes
Expired_any(id, order, t) == order.t_ord = <<>> /\ ~(t < order.crt + WAIT_ORDER_EXPIRY)

Expired(id, order, t) ==
    /\ is_wait(id)
    /\ order.t_ord = <<>>
    /\ ~(t < order.crt + WAIT_ORDER_EXPIRY)

\* lines 495-502: open_symbols is a local of _watcher that only a reconciliation
\* that returned has bound; reading it before is an UnboundLocalError outside the
\* try, which ends the watcher task
W_Dies ==
    /\ pc["watcher"] = "w_streams"
    /\ open_symbols = Unbound
    /\ pc' = [pc EXCEPT !["watcher"] = "dead"]
    /\ UNCHANGED <<orders, xorders, xpos, events, olock, loc, nextId, now, cancelReq,
                   createReq, open_symbols, streams, hist>>
    /\ UNCHANGED <<sigVars, admVars>>

\* line 502: the key popped from self.prices for a symbol that is dropped
PriceKey(sym) == sym \o "USDT"

\* lines 501-502: self.prices.pop(key, None) for each key; a key that is absent is
\* passed over
PopPrices(pr, keys) ==
    IF keys \cap DOMAIN pr = {} THEN pr
    ELSE [k \in DOMAIN pr |-> IF k \in keys THEN None ELSE pr[k]]

\* lines 495-519, the rest of the cycle: the price streams are reset to the open
\* symbols when some stream is redundant and the prices of the dropped symbols are
\* popped, then the expiry step, then the sleep
W_Expire ==
    /\ pc["watcher"] = "w_streams"
    /\ open_symbols # Unbound
    /\ olock = Free
    /\ streams' = IF streams \ open_symbols # {} THEN open_symbols ELSE streams
    /\ LET removed == {id \in DOMAIN orders : is_entry(id) /\ Expired(id, orders[id], now)}
       IN  /\ orders' = PopAll(orders, removed)
           /\ xorders' = XCancelAll(xorders, IdSeq(removed))
           /\ cancelReq' = cancelReq \cup removed
           /\ hist' = [hist EXCEPT !.expired = @ \cup removed,
                                    !.fresh = @ /\ removed = {}]
    /\ prices' = PopPrices(prices, {PriceKey(sym) : sym \in streams \ open_symbols})
    /\ pc' = [pc EXCEPT !["watcher"] = "w_recon"]
    /\ UNCHANGED <<xpos, events, olock, loc, nextId, now, createReq, open_symbols>>
    /\ UNCHANGED <<sigVars, procs, clocks, sig_cache>>

OrderIds == {"wait", "mrkt", "stop", "trgt"} \X (1..MaxId)

Next ==
    \/ \E id \in OrderIds : XFill(id)
    \/ Tick
    \/ H_Check
    \/ H_Ent
    \/ H_SL
    \/ \E t \in {"handler", "watcher"} : MSL(t)
    \/ \E t \in {"handler", "watcher"} : PSL(t)
    \/ PCO("handler")
    \/ CT
    \/ W_Recon
    \/ W_SL
    \/ W_Dies
    \/ W_Expire

Spec == Init /\ [][Next]_vars

\* the event loop runs a task that can run: the handler is a task of its own
HandlerStep ==
    \/ H_Check
    \/ H_Ent
    \/ H_SL
    \/ MSL("handler")
    \/ PSL("handler")
    \/ PCO("handler")

SpecOrphan == InitOrphan /\ [][Next]_vars /\ WF_vars(HandlerStep)

\* ------------------------------------------------ a message delivered twice (SpecDup)
\* The exchange and the handler alone (the watchdog sleeps, no close command is given).
\* At some moment when the handler has nothing to do, the user stream delivers the
\* FILLED message of an order once more; from then on the exchange is quiet.

\* the handler has handled the fill of id: an entry has its stop-loss, a take-profit is
\* marked filled, a final take-profit or a stop-loss is no longer tracked
Handled(id) ==
    IF id \in DOMAIN orders
    THEN IF is_entry(id) THEN orders[id].s_ord # NoOrd
         ELSE is_target(id) /\ orders[id].filled
    ELSE ~is_entry(id)

Redeliver(id) ==
    /\ ~hist.dup.armed
    /\ pc["handler"] = "idle"
    /\ events = <<>>
    /\ id \in DOMAIN xorders
    /\ xorders[id].status = "FILLED"
    /\ Handled(id)
    /\ events' = <<Event(id, "FILLED", xorders[id].price)>>
    /\ hist' = [hist EXCEPT !.dup = [armed |-> TRUE, id |-> id, orders |-> orders,
                                     cancelReq |-> cancelReq, nextId |-> nextId]]
    /\ UNCHANGED <<orders, xorders, xpos, olock, pc, loc, nextId, now, cancelReq, createReq,
                   open_symbols, streams>>
    /\ UNCHANGED <<sigVars, admVars>>

NextDup ==
    \/ \E id \in OrderIds : ~hist.dup.armed /\ XFill(id)
    \/ \E id \in OrderIds : Redeliver(id)
    \/ H_Check
    \/ H_Ent
    \/ H_SL
    \/ MSL("handler")
    \/ PSL("handler")
    \/ PCO("handler")

SpecDup == Init /\ [][NextDup]_vars

\* ------------------------------------------------ two entries (SpecClose)
\* The entries of two channels and two coins: E2 (p2, ADA) is filled and has its
\* stop-loss and its take-profit, E3 (p1, XRP) waits on the exchange.  The exchange,
\* the handler and the close command run; the watchdog sleeps.
E3 == <<"wait", 3>>
S0 == <<"stop", 3>>

SnapshotTwo ==
    [orders |-> (E2 :> [E2Record EXCEPT !.s_ord = S0, !.t_ord = <<T0>>, !.t_q = <<2>>])
                @@ (S0 :> ChildRecord(E2, FALSE))
                @@ (T0 :> ChildRecord(E2, FALSE))
                @@ (E3 :> EntryRecord(1, "XRP", "BUY", 50, 45, <<60>>, "p1", 0)),
     xorders |-> (E2 :> XOrder("FILLED", "MARKET", "ADA", "BUY", "LONG", 2, 105))
                 @@ (S0 :> XOrder("NEW", "STOP_MARKET", "ADA", "SELL", "LONG", 2, 95))
                 @@ (T0 :> XOrder("NEW", "LIMIT", "ADA", "SELL", "LONG", 2, 115))
                 @@ (E3 :> XOrder("NEW", "STOP", "XRP", "BUY", "LONG", 1, 50)),
     xpos |-> [NoPositions EXCEPT ![PosKey("ADA", "LONG")] = 2],
     events |-> <<>>]

NextClose ==
    \/ \E id \in OrderIds : XFill(id)
    \/ H_Check
    \/ H_Ent
    \/ H_SL
    \/ MSL("handler")
    \/ PSL("handler")
    \/ PCO("handler")
    \/ CT

SpecClose == InitFrom({SnapshotTwo}) /\ [][NextClose]_vars

\* ========================================= admission and placement (SpecAdmit)
\* _gather_orders and _place_order.  The prices of the signals are whole numbers of
\* 0.0001 USDT; a correction repeated by a retry moves a target by 1% of a distance
\* that is no longer a multiple of 100 units, and the model floors that hundredth.

ORDER_MAX_RETRIES == 10
SIG_TTL == 600

MaxTries == 2        \* the attempts of one retry loop that are followed

\* self.symbols: the coins the exchange lists
Symbols == {"ADA", "XRP"}

\* the mark prices the stream may report: below the entry, at it, past max_entry
Marks == {95000, 100000, 130000}

\* the signals put into order_queue, in this order
SigA == Signal("ADA", <<100000>>, <<120000, 150000>>, 90000, None, None, "none", "p1")
SigB == Signal("ADA", <<100000>>, <<120000, 130000>>, 90000, None, None, "none", "p2")
SigC(coin) == Signal(coin, <<100000>>, <<110000, 120000>>, 90000, None, None, "none", "p1")

\* one queued signal and the _process task it gets: sig is the Signal object (which
\* correct() overwrites), raw the signal as queued, reg the time its key was registered
\* (-1: not yet), oid the entry order created for it
Proc(s) ==
    [sig |-> s, raw |-> s, pc |-> "queued", tries |-> 0, reg |-> -1, oid |-> NoOrd]

InitAdmit ==
    /\ sig = None /\ orig = None /\ mark = 0 /\ spc = "off" /\ decision = NoDecision
    /\ balance = 1000000
    /\ \E coin \in Symbols \cup {"ZZZ"} : procs = <<Proc(SigA), Proc(SigB), Proc(SigC(coin))>>
    /\ clocks = <<>>
    /\ sig_cache = <<>>
    /\ \E v \in {None} \cup Marks : prices = [coin \in Symbols |-> IF coin = "ADA" THEN v ELSE 95000]
    /\ orders = <<>> /\ xorders = <<>> /\ xpos = NoPositions /\ events = <<>>
    /\ olock = Free /\ pc = [t \in Tasks |-> "off"] /\ loc = [t \in Tasks |-> NoLocal]
    /\ nextId = 1 /\ now = 0 /\ cancelReq = {} /\ createReq = 0
    /\ open_symbols = Unbound /\ streams = {} /\ hist = InitHist

\* what SpecAdmit leaves alone
AdmRest == <<sig, orig, mark, spc, decision, xpos, events, olock, pc, loc, cancelReq,
             createReq, open_symbols, streams, hist>>

CoinOf(p) == procs[p].sig.coin

\* (mutant of LockFree: every call of NamedLock.lock gets a lock of its own)
LockFree_fresh(coin) == TRUE

\* asyncio.Lock.locked() of self.clocks._locks[coin] is false (a lock not yet created
\* is created unlocked, utils.py:13-15)
LockFree(coin) == IF coin \in DOMAIN clocks THEN clocks[coin] = None ELSE TRUE

\* lock.release() of the named lock (utils.py:24)
Release(coin) == clocks' = Put(clocks, coin, None)

\* (mutant of _cache_key: the key is the coin and the last target)
cache_key_last(s) == <<s.coin, Last(s.targets)>>

\* _cache_key: the coin and the first target
cache_key(s) == <<s.coin, s.targets[1]>>

\* (mutant of expire: every entry is dropped)
expire_all(cache, t) == <<>>

\* TTLCache.expire(): the entries whose time has come are dropped
expire(cache, t) == [k \in {x \in DOMAIN cache : t < cache[x]} |-> cache[k]]

\* _gatherer: the head of order_queue is taken; an unknown symbol is skipped, any other
\* signal gets its _process task, which runs up to `await lock.acquire()`
Gather(p) ==
    /\ procs[p].pc = "queued"
    /\ \A q \in 1..(p - 1) : procs[q].pc # "queued"
    /\ procs' = [procs EXCEPT ![p].pc = IF CoinOf(p) \in Symbols THEN "lock" ELSE "unknown"]
    /\ UNCHANGED <<clocks, sig_cache, prices, balance, orders, xorders, nextId, now>>
    /\ UNCHANGED AdmRest

\* NamedLock.lock, `await lock.acquire()`: the lock is taken when it is free, by the
\* task that has waited longest
Acquire(p) ==
    /\ procs[p].pc = "lock"
    /\ LockFree(CoinOf(p))
    /\ \A q \in 1..(p - 1) : ~(procs[q].pc = "lock" /\ CoinOf(q) = CoinOf(p))
    /\ clocks' = Put(clocks, CoinOf(p), p)
    /\ procs' = [procs EXCEPT ![p].pc = "register"]
    /\ UNCHANGED <<sig_cache, prices, balance, orders, xorders, nextId, now>>
    /\ UNCHANGED AdmRest

\* _register_order_for_signal, and the early return of _process when it answers False
Register(p) ==
    /\ procs[p].pc = "register"
    /\ olock = Free
    /\ LET cache == expire(sig_cache, now)
           key   == cache_key(procs[p].sig)
       IN  IF key \in DOMAIN cache
           THEN /\ sig_cache' = cache
                /\ procs' = [procs EXCEPT ![p].pc = "ignored"]
                /\ Release(CoinOf(p))
           ELSE /\ sig_cache' = Put(cache, key, now + SIG_TTL)
                /\ procs' = [procs EXCEPT ![p].pc = "place", ![p].reg = now]
                /\ UNCHANGED clocks
    /\ UNCHANGED <<prices, balance, orders, xorders, nextId, now>>
    /\ UNCHANGED AdmRest

\* _unregister_order: the key is computed from the signal as it is by now
unregister(cache, s) == Pop(cache, cache_key(s))

\* (mutant of Retry: the loop has no last round)
Retry_again(p, s) ==
    /\ procs' = [procs EXCEPT ![p].sig = s, ![p].pc = "sleep", ![p].tries = @ + 1]
    /\ UNCHANGED <<sig_cache, clocks>>

\* the end of one failed attempt: another one after ORDER_RETRY_SLEEP, or, after the
\* last one, _unregister_order and the end of _process
Retry(p, s) ==
    IF procs[p].tries < ORDER_MAX_RETRIES - 1
    THEN /\ procs' = [procs EXCEPT ![p].sig = s, ![p].pc = "sleep", ![p].tries = @ + 1]
         /\ UNCHANGED <<sig_cache, clocks>>
    ELSE /\ procs' = [procs EXCEPT ![p].sig = s, ![p].pc = "gaveup", ![p].tries = @ + 1]
         /\ sig_cache' = unregister(sig_cache, s)
         /\ Release(CoinOf(p))

\* `break` on an unclassified exception: _unregister_order and the end of _process
GiveUp(p, s) ==
    /\ procs' = [procs EXCEPT ![p].sig = s, ![p].pc = "gaveup"]
    /\ sig_cache' = unregister(sig_cache, s)
    /\ Release(CoinOf(p))

\* _place_order from line 253 on, and what the retry loop does with what it raises: s is
\* the signal corrected at `price`, d what the guards of lines 254-281 decide, r what
\* futures_create_order does ("ok", the error -2021, any other error)
Attempt(p, s, d, price, r) ==
    LET id   == <<d.id, nextId>>
        side == IF is_long(s) THEN "BUY" ELSE "SELL"
    IN  IF d.kind = "error"
        THEN /\ r = "ok"
             /\ GiveUp(p, s)
             /\ UNCHANGED <<orders, xorders, nextId>>
        ELSE IF d.kind \in {"InsufficientQuantity", "EntryCrossed"}
        THEN /\ r = "ok"
             /\ Retry(p, s)
             /\ UNCHANGED <<orders, xorders, nextId>>
        ELSE IF r = "ok"
        THEN /\ orders' = Put(orders, id,
                              EntryRecord(d.qty, s.coin, side,
                                          IF s.wait_entry THEN s.entry ELSE price,
                                          s.sl, s.targets, s.tag, now))
             /\ xorders' = Put(xorders, id,
                               XOrder(IF d.kind = "STOP" THEN "NEW" ELSE "FILLED",
                                      d.kind, s.coin, side, PositionSide(side),
                                      d.qty, d.stop))
             /\ nextId' = nextId + 1
             /\ procs' = [procs EXCEPT ![p].sig = s, ![p].pc = "placed", ![p].oid = id]
             /\ Release(CoinOf(p))
             /\ UNCHANGED sig_cache
        ELSE IF r = "-2021"
        THEN /\ Retry(p, s)
             /\ UNCHANGED <<orders, xorders, nextId>>
        ELSE /\ procs' = [procs EXCEPT ![p].sig = s, ![p].pc = "failed"]
             /\ Release(CoinOf(p))
             /\ UNCHANGED <<sig_cache, orders, xorders, nextId>>

\* the attempts of one task that are followed: the first MaxTries when three tasks run,
\* and one more than the loop allows when two do
Followed == IF Len(procs) > 2 THEN MaxTries ELSE ORDER_MAX_RETRIES + 1

\* _place_order(signal) from line 241 on, for a task at `at`, and the handling of what
\* it raises: no price within the 10 polls (line 247), or futures_change_leverage
\* (line 251) fails, or it answers and the rest runs
PlaceBody(p, at) ==
    /\ procs[p].pc = at
    /\ procs[p].tries < Followed
    /\ olock = Free
    /\ nextId <= MaxId
    /\ IF prices[CoinOf(p)] = None
       THEN /\ Retry(p, procs[p].sig)
            /\ UNCHANGED <<orders, xorders, nextId>>
       ELSE \/ /\ GiveUp(p, procs[p].sig)
               /\ UNCHANGED <<orders, xorders, nextId>>
            \/ \E s \in {correct(procs[p].sig, prices[CoinOf(p)])} :
               \E d \in {place_decision(s, prices[CoinOf(p)], balance)} :
               \E r \in {"ok", "-2021", "fail"} :
                   Attempt(p, s, d, prices[CoinOf(p)], r)
    /\ UNCHANGED <<prices, balance, now>>
    /\ UNCHANGED <<sig, orig, mark, spc, decision, xpos, events, olock, pc, loc, cancelReq,
                   createReq, open_symbols, hist>>

\* One attempt of the retry loop: _subscribe_futures(signal.coin) (line 240; streams is
\* kept as a set) and the rest of _place_order
Place(p) ==
    /\ PlaceBody(p, "place")
    /\ streams' = streams \cup {CoinOf(p)}

\* `await asyncio.sleep(ORDER_RETRY_SLEEP)` returns
Wake(p) ==
    /\ procs[p].pc = "sleep"
    /\ procs' = [procs EXCEPT ![p].pc = "place"]
    /\ UNCHANGED <<clocks, sig_cache, prices, balance, orders, xorders, nextId, now>>
    /\ UNCHANGED AdmRest

\* the mark-price stream reports a new price of ADA (that of XRP stays where it is)
PriceMove ==
    /\ \E v \in Marks \ {prices["ADA"]} : prices' = [prices EXCEPT !["ADA"] = v]
    /\ UNCHANGED <<procs, clocks, sig_cache, balance, orders, xorders, nextId, now>>
    /\ UNCHANGED AdmRest

\* time passes: to half the life of a cache entry made at the start, and to its end
AdmTick ==
    /\ \E d \in {NEW_ORDER_TIMEOUT, SIG_TTL} :
          /\ now < d
          /\ now' = d
    /\ UNCHANGED <<procs, clocks, sig_cache, prices, balance, orders, xorders, nextId>>
    /\ UNCHANGED AdmRest

NextAdmit ==
    \/ \E p \in DOMAIN procs : Gather(p)
    \/ \E p \in DOMAIN procs : Acquire(p)
    \/ \E p \in DOMAIN procs : Register(p)
    \/ \E p \in DOMAIN procs : Place(p)
    \/ \E p \in DOMAIN procs : Wake(p)
    \/ PriceMove
    \/ AdmTick

SpecAdmit == InitAdmit /\ [][NextAdmit]_vars

\* ------------------------------------------------ the whole retry loop (SpecRetry)
\* Two signals for ADA, the second waiting for the named lock while the first runs its
\* retry loop to the end.  (From the third correct() of one signal on, the front-run
\* targets are truncated to the price unit.)
InitRetry ==
    /\ sig = None /\ orig = None /\ mark = 0 /\ spc = "off" /\ decision = NoDecision
    /\ balance = 1000000
    /\ procs = <<Proc(SigA), Proc(SigB)>>
    /\ clocks = <<>>
    /\ sig_cache = <<>>
    /\ \E v \in {None} \cup Marks : prices = [coin \in Symbols |-> IF coin = "ADA" THEN v ELSE 95000]
    /\ orders = <<>> /\ xorders = <<>> /\ xpos = NoPositions /\ events = <<>>
    /\ olock = Free /\ pc = [t \in Tasks |-> "off"] /\ loc = [t \in Tasks |-> NoLocal]
    /\ nextId = 1 /\ now = 0 /\ cancelReq = {} /\ createReq = 0
    /\ open_symbols = Unbound /\ streams = {} /\ hist = InitHist

\* a step of the _process task p: the event loop runs every task that can run, and the
\* exchange answers every request
ProcStep(p) == Gather(p) \/ Acquire(p) \/ Register(p) \/ Place(p) \/ Wake(p)

SpecRetry == InitRetry /\ [][NextAdmit]_vars /\ \A p \in 1..2 : WF_vars(ProcStep(p))

\* ===================================================== the signal functions (SpecSignal)

InitSignal ==
    /\ \E in \in SignalInputs :
          /\ Accepted(in[1])
          /\ ExactInput(in[1], in[2])
          /\ sig = in[1]
          /\ orig = in[1]
          /\ mark = in[2]
    /\ balance \in {0, 1000000}
    /\ spc = "new"
    /\ decision = NoDecision
    /\ BrIdle
    /\ AdmIdle

\* _place_order line 253: signal.correct(price)
SigCorrect ==
    /\ spc = "new"
    /\ sig' = correct(sig, mark)
    /\ spc' = "corrected"
    /\ UNCHANGED <<orig, mark, balance, decision>>
    /\ UNCHANGED <<brVars, admVars>>

\* _place_order lines 254-281: sizing, the slippage and max-entry guards, the order type
SigPlace ==
    /\ spc = "corrected"
    /\ decision' = place_decision(sig, mark, balance)
    /\ spc' = "decided"
    /\ UNCHANGED <<sig, orig, mark, balance>>
    /\ UNCHANGED <<brVars, admVars>>

NextSignal == SigCorrect \/ SigPlace

SpecSignal == InitSignal /\ [][NextSignal]_vars

\* ------------------------------------------------------ claims under SpecSignal

RECURSIVE Increasing(_)
Increasing(s) == IF Len(s) < 2 THEN TRUE ELSE s[1] < s[2] /\ Increasing(Tail(s))

RECURSIVE Decreasing(_)
Decreasing(s) == IF Len(s) < 2 THEN TRUE ELSE s[1] > s[2] /\ Decreasing(Tail(s))

\* C7: after correct(P), stop < entry < targets[0] < targets[1] < ... for a long signal
\* and stop > entry > targets[0] > ... for a short one, for every signal that
\* Signal.__init__ accepts and every mark price.
C7_CorrectedOrder ==
    spc # "new" =>
        IF is_long(orig)
        THEN Increasing(<<sig.sl, sig.entry>> \o sig.targets)
        ELSE Decreasing(<<sig.sl, sig.entry>> \o sig.targets)

\* x is v times a power of ten 10^k, k in -6..5, that minimises |v * 10^k - P| / P:
\* no neighbouring exponent is strictly closer (the distance has one minimum in k)
IsNearestScale(v, P, x) ==
    \E k \in (0 - MIN_PRECISION)..(MIN_PRECISION - 1) :
        /\ IF k >= 0 THEN v <= 100000000 \div Pow10(k) ELSE v % Pow10(0 - k) = 0
        /\ x = Scale(v, k)
        /\ (k = MIN_PRECISION - 1 \/ 11 * x >= 2 * P)
        /\ (k = 0 - MIN_PRECISION \/ 11 * x <= 20 * P)

\* C8: after correct(P) every entry, every target and the stop-loss is the original
\* value times the power of ten nearest to P in relative distance, and nothing else
\* (so a value already at the order of magnitude of P is unchanged).
C8_OnlyRescaled ==
    spc # "new" =>
        /\ Len(sig.entries) = Len(orig.entries)
        /\ \A i \in 1..Len(orig.entries) : \E j \in 1..Len(sig.entries) :
              IsNearestScale(orig.entries[i], mark, sig.entries[j])
        /\ \A j \in 1..Len(sig.entries) : \E i \in 1..Len(orig.entries) :
              IsNearestScale(orig.entries[i], mark, sig.entries[j])
        /\ \A i \in 1..Len(orig.targets) :
              IsNearestScale(orig.targets[i], mark, sig.targets[i])
        /\ orig.sl # None => IsNearestScale(orig.sl, mark, sig.sl)

\* C9 as claimed: for the BTC signal at mark price 39900 _place_order submits a MARKET
\* order of balance * 0.01 * leverage / 39900 coins (leverage 20), rounded to the lot.
C9_MarketAt39900 ==
    (orig = BTCSignal /\ mark = 39900000 /\ balance > 0 /\ spc = "decided") =>
        /\ decision.kind = "MARKET"
        /\ decision.qty = round_qty(FMul(Frac(balance, mark), Frac(20, 100)))

\* C9 as amended: with a positive balance, at 39900 the price is beyond max_entry
\* (39834.387) and _place_order raises EntryCrossed without an order; at 39800, between
\* the entry and max_entry, it submits a MARKET order of
\* balance * risk / ((entry / sl - 1) * price) coins, rounded to the lot; below the
\* entry (39700) the order is a stop-limit, never a MARKET one.
C9_BTCExample ==
    (orig = BTCSignal /\ balance > 0 /\ spc = "decided") =>
        /\ sig.leverage = MIN_LEVERAGE
        /\ mark = 39900000 => decision.kind = "EntryCrossed" /\ decision.qty = 0
        /\ mark = 39800000 =>
              /\ decision.kind = "MARKET"
              /\ decision.qty =
                    FRound(FMul(FMul(Frac(balance, mark), Frac(39792000, 39793500 - 39792000)),
                                Frac(1000, 100)))
        /\ mark = 39700000 => decision.kind = "STOP"

C9_Witness ==
    orig = BTCSignal /\ mark = 39900000 /\ balance > 0 /\ spc = "decided"

\* ------------------------------------------------------------ claims under Spec

\* no record of the map refers to the entry e: the entry itself is gone and no
\* take-profit or stop-loss record has it as parent
NoRef(ords, e) ==
    /\ e \notin DOMAIN ords
    /\ \A id \in DOMAIN ords : ~is_entry(id) => ords[id].parent # e

\* the handler is about to run _move_stop_loss for the last take-profit of a tracked
\* entry
FinalTPFill(tp) ==
    /\ pc["handler"] = "msl"
    /\ loc["handler"].msg.c = tp
    /\ tp \in DOMAIN orders
    /\ orders[tp].parent \in DOMAIN orders
    /\ orders[orders[tp].parent].t_ord # <<>>
    /\ tp = Last(orders[orders[tp].parent].t_ord)

\* C3: once the handler has handled the FILLED event of an entry's final take-profit,
\* the map holds no record that refers to the entry: not the entry, no take-profit
\* record and no stop-loss record, current or replaced, whose parent it is.
C3_TeardownTotal ==
    [][\A tp \in DOMAIN orders :
          (FinalTPFill(tp) /\ pc'["handler"] # "msl") => NoRef(orders', orders[tp].parent)]_vars

\* the handler is about to handle the fill of the stop-loss sl of a tracked entry
\* that still has an open take-profit
SLFill(sl) ==
    /\ pc["handler"] = "h_sl"
    /\ loc["handler"].msg.c = sl
    /\ sl \in DOMAIN orders
    /\ orders[sl].parent \in DOMAIN orders
    /\ \E tid \in Range(orders[orders[sl].parent].t_ord) :
          tid \in DOMAIN xorders /\ xorders[tid].status = "NEW"

\* the symbol a record belongs to: an entry's own, a child's parent's
SymbolOf(ords, id, gone) ==
    IF is_entry(id) THEN ords[id].sym
    ELSE IF ords[id].parent \in DOMAIN ords THEN ords[ords[id].parent].sym
    ELSE IF ords[id].parent \in DOMAIN gone THEN gone[ords[id].parent].sym
    ELSE "?"

\* C4: once a stop-loss FILLED event is handled for an entry that still has open
\* take-profits, every take-profit id of the entry's t_ord has had a cancel request,
\* the entry and all its children are gone from the map, and the map holds no
\* record for that instrument.
C4_StopLossCascade ==
    [][\A sl \in DOMAIN orders :
          (SLFill(sl) /\ pc'["handler"] # "h_sl") =>
              LET pid == orders[sl].parent
              IN  /\ Range(orders[pid].t_ord) \subseteq cancelReq'
                  /\ sl \notin DOMAIN orders'
                  /\ NoRef(orders', pid)
                  /\ \A id \in DOMAIN orders' :
                        SymbolOf(orders', id, orders) # orders[pid].sym]_vars

\* C5: a reconciliation run that starts with the map, the exchange and the clock as
\* the previous run left them makes no create request and does not change the map,
\* no request of either run having failed.
C5_Idempotent ==
    [][(/\ pc["watcher"] = "w_recon"
        /\ pc'["watcher"] # "w_recon"
        /\ hist.fresh
        /\ ~hist.faults
        /\ ~hist'.faults) =>
          /\ orders' = orders
          /\ createReq' = 0
          /\ pc'["watcher"] = "w_streams"]_vars

\* C6: the expiry step of a watchdog cycle removes every tracked wait entry that has
\* no take-profit and was created WAIT_ORDER_EXPIRY or more ago, with a cancel
\* request for it, and leaves every younger wait entry and every market entry as it
\* is.
C6_Expiry ==
    [][(pc["watcher"] = "w_streams" /\ pc'["watcher"] = "w_recon") =>
          \A id \in DOMAIN orders :
              is_entry(id) =>
                  /\ (/\ is_wait(id)
                      /\ orders[id].t_ord = <<>>
                      /\ orders[id].crt + WAIT_ORDER_EXPIRY <= now)
                     => (/\ id \notin DOMAIN orders'
                         /\ id \in cancelReq'
                         /\ id \in DOMAIN xorders' => xorders'[id].status # "NEW")
                  /\ (is_market(id) \/ now < orders[id].crt + WAIT_ORDER_EXPIRY)
                     => (id \in DOMAIN orders' /\ orders'[id] = orders[id])]_vars

\* an expiry step has removed the old wait entry E1
C6_Witness == E1 \in hist.expired

\* ------------------------------------------------------ claims under SpecOrphan

\* the handler is about to run _move_stop_loss for a tracked take-profit that the
\* t_ord of its tracked parent does not list, and the parent has a stop-loss
OrphanFill ==
    /\ pc["handler"] = "msl"
    /\ loc["handler"].msg.c \in DOMAIN orders
    /\ orders[loc["handler"].msg.c].parent \in DOMAIN orders
    /\ LET parent == orders[orders[loc["handler"].msg.c].parent]
       IN  /\ loc["handler"].msg.c \notin Range(parent.t_ord)
           /\ parent.s_ord # NoOrd

\* C10: the handling of a FILLED event for a tracked take-profit that its parent's
\* t_ord does not list (the parent having a stop-loss) eventually completes, with the
\* order-map lock released.
C10_OrphanCompletes == OrphanFill ~> (pc["handler"] = "idle" /\ olock = Free)

\* ===================================================== claims under SpecAdmit

\* the signal of task p led to an entry order on the exchange
Submitted(p) == procs[p].oid # NoOrd

\* tasks p and q got signals for the same coin
SameCoin(p, q) == procs[p].raw.coin = procs[q].raw.coin

\* both signals passed the admission cache, less than the life of an entry apart
RegisteredTogether(p, q) ==
    /\ procs[p].reg # -1
    /\ procs[q].reg # -1
    /\ Abs(procs[p].reg - procs[q].reg) < SIG_TTL

Inside(p) == procs[p].pc \in {"register", "place", "sleep"}

\* C2: at most one _process task of a coin is inside the section guarded by the named
\* lock (registration and all placement retries).
C2_Serialized ==
    \A p, q \in DOMAIN procs : (p # q /\ SameCoin(p, q)) => ~(Inside(p) /\ Inside(q))

\* one task sleeps between two retries while two more of the same coin wait for the lock
C2_Witness ==
    /\ procs[1].pc = "sleep"
    /\ procs[2].pc = "lock" /\ SameCoin(1, 2)
    /\ procs[3].pc = "lock" /\ SameCoin(1, 3)

\* ================================================ further claims under Spec

\* task t is about to run _place_sl_order for a tracked entry
SLCall(t) == pc[t] = "psl" /\ loc[t].parent \in DOMAIN orders

\* after the step the exchange holds an open stop order that closes the side of entry
\* p, or it was handed a MARKET order closing that side in this step
Protected(p) ==
    \E id \in DOMAIN xorders' :
        /\ xorders'[id].sym = orders[p].sym
        /\ xorders'[id].pside = PositionSide(orders[p].side)
        /\ xorders'[id].side = CloseSide(orders[p].side)
        /\ \/ xorders'[id].kind = "STOP_MARKET" /\ xorders'[id].status = "NEW"
           \/ xorders'[id].kind = "MARKET" /\ id \notin DOMAIN xorders

\* C11: whenever _place_sl_order returns for a tracked entry, whatever the exchange
\* answered to the stop-loss creation, the position has an open stop-loss order or a
\* MARKET close was submitted for it.
C11_SLFallback ==
    [][\A t \in Tasks : (SLCall(t) /\ pc'[t] # "psl") => Protected(loc[t].parent)]_vars

\* ============================================= further claims under SpecAdmit

\* task p ends its retry loop without a placement in this step (retries exhausted or
\* an unclassified exception), which is where _process calls _unregister_order
GivesUp(p) == procs[p].pc # "gaveup" /\ procs'[p].pc = "gaveup"

\* C12: when the processing of an admitted signal ends without a placement, the cache
\* no longer holds the key that was registered for the signal.
C12_Released ==
    [][\A p \in DOMAIN procs :
          GivesUp(p) => cache_key(procs[p].raw) \notin DOMAIN sig_cache']_vars

\* _process of task p has ended, on any of its paths: unknown symbol, rejected by
\* admission, placed, creation failed, given up
Done(p) == procs[p].pc \in {"unknown", "ignored", "placed", "failed", "gaveup"}

\* task p holds the named lock of its coin
Holds(p) == IF CoinOf(p) \in DOMAIN clocks THEN clocks[CoinOf(p)] = p ELSE FALSE

RecordsOf(e, kind) ==
    {c \in DOMAIN orders : c[1] = kind /\ orders[c].parent = e}

\* C14: every tracked entry is the parent of at most one tracked stop-loss record, the
\* one its s_ord names, and of at most MAX_TARGETS take-profit records.
C14_OneStopLoss ==
    \A e \in DOMAIN orders :
        is_entry(e) =>
            /\ RecordsOf(e, "stop") \subseteq {orders[e].s_ord}
            /\ Cardinality(RecordsOf(e, "trgt")) <= MAX_TARGETS

\* the tracked stop-loss and take-profit records whose parent is not tracked
Orphans == {c \in DOMAIN orders : ~is_entry(c) /\ orders[c].parent \notin DOMAIN orders}

\* this step is a reconciliation pass of the watchdog
ReconPass == pc["watcher"] = "w_recon" /\ pc'["watcher"] # "w_recon"

\* the pass can have issued a cancel request for the id o
CancelledByPass(o) ==
    \E getfail \in SUBSET Asked(orders, xorders), rej \in SUBSET Wanted(orders, xorders) :
        o \in Reconcile(orders, xorders, xpos, nextId, now, getfail, rej).cancels

\* C15: a reconciliation pass removes every tracked child whose parent is not tracked
\* from the tracking map, and issues a cancel request for its id.
C15_OrphanCancelled ==
    [][ReconPass => \A o \in Orphans : o \notin DOMAIN orders' /\ CancelledByPass(o)]_vars

\* ================================================ further claims under SpecOrphan

C17_DuplicateNoOp ==
    hist.dup.armed =>
        /\ orders = hist.dup.orders
        /\ cancelReq = hist.dup.cancelReq
        /\ nextId = hist.dup.nextId

\* ================================================ claims under SpecClose

\* the entry e and the tracked records whose parent it is
Family(e) == {e} \cup {c \in DOMAIN orders : ~is_entry(c) /\ orders[c].parent = e}

\* close_trades(tag, coin) is about the entry e
Addressed(e, tag, coin) == orders[e].tag = tag /\ (coin = AnyCoin \/ orders[e].sym = coin)

\* C18: whatever the state close_trades(tag, coin) is called in, the records of the
\* entries it is not about, and those of their children, stay in the map unchanged, no
\* cancel request is made for them, their orders on the exchange stay as they are, and
\* only positions of the entries it is about are reduced.
C18_CloseFrame ==
    \A tag \in Tags, coin \in {AnyCoin} \cup Coins, accept \in BOOLEAN :
        LET ids == Matching(orders, tag, coin)
            res == CloseEntries(orders, xorders, xpos, IdSeq(ids), accept, {}, {})
        IN  /\ \A e \in DOMAIN orders :
                  (is_entry(e) /\ ~Addressed(e, tag, coin)) =>
                      \A c \in Family(e) :
                          /\ c \in DOMAIN res.orders
                          /\ res.orders[c] = orders[c]
                          /\ c \notin res.cancels
                          /\ c \in DOMAIN xorders => res.xorders[c] = xorders[c]
            /\ \A k \in PosKeys :
                  (\A e \in DOMAIN orders :
                      (is_entry(e) /\ Addressed(e, tag, coin)) =>
                          k # PosKey(orders[e].sym, PositionSide(orders[e].side)))
                  => res.xpos[k] = xpos[k]

\* close_trades("p2") has run: the children of E2 are cancelled and no longer tracked,
\* while E3, filled meanwhile, is tracked with its stop-loss and its take-profit
C18_Witness ==
    /\ E2 \in DOMAIN orders /\ S0 \notin DOMAIN orders /\ S0 \in cancelReq
    /\ E3 \in DOMAIN orders /\ orders[E3].s_ord \in DOMAIN orders
    /\ orders[E3].t_ord # <<>> /\ orders[E3].t_ord[1] \in DOMAIN orders

\* ============================================= further claims under SpecAdmit (2)

\* the signal of task p was admitted less than SIG_TTL ago and the key registered for
\* it (its coin and its first target) is still in the cache
Reserved(p) ==
    /\ procs[p].reg >= 0
    /\ now < procs[p].reg + SIG_TTL
    /\ <<procs[p].raw.coin, procs[p].raw.targets[1]>> \in DOMAIN sig_cache

\* task q leaves _register_order_for_signal in this step
Registers(q) == procs[q].pc = "register" /\ procs'[q].pc # "register"

LiveSymbols(ords, xp) ==
    {ords[e].sym : e \in {x \in DOMAIN ords : is_entry(x)}}
        \cup {k[1] : k \in {x \in PosKeys : xp[x] # 0}}

\* the rest of a watchdog cycle whose reconciliation has returned its open symbols
CycleEnd ==
    /\ pc["watcher"] = "w_streams" /\ pc'["watcher"] = "w_recon"
    /\ loc["watcher"].syms # Unbound

\* C20: at the end of a watchdog cycle whose reconciliation returned, the subscribed
\* coins are the coins that have a tracked entry or a position on the exchange.
C20_StreamsExact == [][CycleEnd => streams' = LiveSymbols(orders', xpos')]_vars

\* ------------------------------------------------ three take-profits (SpecMove)
\* One filled entry with its stop-loss and three take-profits on the exchange; the
\* exchange and the handler run, the watchdog sleeps and no close command is given.
T1 == <<"trgt", 1>>
T2 == <<"trgt", 2>>

SnapshotThree ==
    [orders |-> (E2 :> [EntryRecord(4, "ADA", "BUY", 105, 95, <<115, 125, 135>>, "p2", 0)
                           EXCEPT !.s_ord = S0, !.t_ord = <<T1, T2, T0>>, !.t_q = <<2, 1, 1>>])
                @@ (S0 :> ChildRecord(E2, FALSE))
                @@ (T1 :> ChildRecord(E2, FALSE))
                @@ (T2 :> ChildRecord(E2, FALSE))
                @@ (T0 :> ChildRecord(E2, FALSE)),
     xorders |-> (E2 :> XOrder("FILLED", "MARKET", "ADA", "BUY", "LONG", 4, 105))
                 @@ (S0 :> XOrder("NEW", "STOP_MARKET", "ADA", "SELL", "LONG", 4, 95))
                 @@ (T1 :> XOrder("NEW", "LIMIT", "ADA", "SELL", "LONG", 2, 115))
                 @@ (T2 :> XOrder("NEW", "LIMIT", "ADA", "SELL", "LONG", 1, 125))
                 @@ (T0 :> XOrder("NEW", "LIMIT", "ADA", "SELL", "LONG", 1, 135)),
     xpos |-> [NoPositions EXCEPT ![PosKey("ADA", "LONG")] = 4],
     events |-> <<>>]

NextMove ==
    \/ \E id \in OrderIds : XFill(id)
    \/ H_Check
    \/ H_SL
    \/ MSL("handler")
    \/ PSL("handler")

SpecMove == InitFrom({SnapshotThree}) /\ [][NextMove]_vars

\* ================================================ claims under SpecMove

\* what the take-profits of the entry hold that the exchange has not filled
OpenQty(xo, order) ==
    Sum([i \in 1..Len(order.t_ord) |->
            IF order.t_ord[i] \in DOMAIN xo /\ xo[order.t_ord[i]].status = "FILLED"
            THEN 0 ELSE order.t_q[i]])

\* the handler ends the handling of a take-profit fill that was not the last one, the
\* exchange having accepted the new stop-loss
MoveDone ==
    /\ pc["handler"] = "psl" /\ pc'["handler"] = "idle"
    /\ loc["handler"].price # None
    /\ loc["handler"].parent \in DOMAIN orders
    /\ orders'[loc["handler"].parent].s_ord # orders[loc["handler"].parent].s_ord

\* C21: when the FILLED event of a take-profit that is not the last one has been
\* handled, the old stop-loss has had its cancel request and the new one stops at the
\* entry's recorded fill price and covers what the take-profits not yet filled hold
\* (read from the map's filled flags or from the exchange), in whatever order the
\* take-profits fill.
C21_MovedToBreakeven ==
    [][MoveDone =>
          LET p == loc["handler"].parent
              new == xorders'[orders'[p].s_ord]
          IN  /\ orders[p].s_ord \in cancelReq'
              /\ new.kind = "STOP_MARKET" => new.price = orders[p].ent
              /\ new.qty \in {UnfilledQty(orders, orders[p]), OpenQty(xorders, orders[p])}]_vars

\* ================================================ further claims under Spec (4)

\* this step puts a new order of the given kind on the exchange for the entry e
ChildCreated(e, kind) ==
    \E id \in DOMAIN xorders' \ DOMAIN xorders :
        /\ id[1] = kind
        /\ id \in DOMAIN orders'
        /\ orders'[id].parent = e

\* the handler is in _place_collection_orders for the tracked entry e, past its
\* _place_sl_order and before its take-profit requests
AtTargets(e) ==
    pc["handler"] = "pco" /\ loc["handler"].parent = e /\ e \in DOMAIN orders

\* C22: when the handler comes to the take-profit requests of a filled entry, the
\* stop-loss creation was asked before, with the signal's stop and the entry's full
\* quantity; and no stop-loss or take-profit order is created for an entry whose
\* FILLED message the handler has not taken.
C22_StopLossFirst ==
    [][\A e \in DOMAIN orders :
          /\ (AtTargets(e) \/ ChildCreated(e, "trgt"))
                => <<e, orders[e].sl, orders[e].qty>> \in hist.slreq
          /\ (ChildCreated(e, "trgt") \/ ChildCreated(e, "stop")) => e \in hist.seen]_vars

\* the fill of the wait entry E1 was handled: the exchange rejected the stop-loss that
\* was asked first, and holds the take-profits asked after it
C22_Witness ==
    /\ E1 \in DOMAIN orders /\ E1 \in hist.seen
    /\ <<E1, 90, 4>> \in hist.slreq
    /\ orders[E1].s_ord = NoOrd
    /\ Len(orders[E1].t_ord) = 2
    /\ \A i \in 1..2 : orders[E1].t_ord[i] \in DOMAIN xorders

\* ------------------------------------------------ the take-profit quantities (SpecSplit)
\* _place_collection_orders on the fill of a market entry, for every quantity (in lots of
\* an instrument whose LOT_SIZE minQty is 1) up to MaxQty and every number of targets up
\* to MaxTargets; the handler runs alone.
MaxQty == 16
MaxTargets == 7

TargetList(n) == [i \in 1..n |-> 105 + 10 * i]

SnapshotSplit(q, n) ==
    [orders |-> (E2 :> EntryRecord(q, "ADA", "BUY", 105, 95, TargetList(n), "p2", 0)),
     xorders |-> (E2 :> XOrder("FILLED", "MARKET", "ADA", "BUY", "LONG", q, 105)),
     xpos |-> [NoPositions EXCEPT ![PosKey("ADA", "LONG")] = q],
     events |-> <<Event(E2, "FILLED", 105)>>]

InitSplit ==
    /\ SigIdle
    /\ AdmIdle
    /\ \E q \in 1..MaxQty, n \in 1..MaxTargets :
          /\ orders = SnapshotSplit(q, n).orders
          /\ xorders = SnapshotSplit(q, n).xorders
          /\ xpos = SnapshotSplit(q, n).xpos
          /\ events = SnapshotSplit(q, n).events
    /\ olock = Free
    /\ pc = [t \in Tasks |-> IF t = "handler" THEN "idle" ELSE "off"]
    /\ loc = [t \in Tasks |-> NoLocal]
    /\ nextId = 1
    /\ now = 0
    /\ cancelReq = {}
    /\ createReq = 0
    /\ open_symbols = Unbound
    /\ streams = {"ADA"}
    /\ hist = InitHist

NextSplit ==
    \/ H_Check
    \/ H_Ent
    \/ H_SL
    \/ PSL("handler")
    \/ PCO("handler")

SpecSplit == InitSplit /\ [][NextSplit]_vars

\* ================================================ claims under SpecSplit

\* q is half of prev, rounded to a whole lot
IsHalf(prev, q) == 2 * q - prev \in {-1, 0, 1}

\* C23: when the take-profits of a filled entry are placed there is at most one for
\* each of the first MAX_TARGETS targets, and the recorded t_q never sum to more than
\* the entry's quantity; when every creation succeeds, each take-profit is at its
\* target's price, each but the last has half the quantity of the one before it (of the
\* entry for the first), rounded to the lot, and the last has what is left, so that
\* the recorded t_q sum to the entry's quantity.
C23_HalvingSplit ==
    [][\A e \in DOMAIN orders :
          (AtTargets(e) /\ pc'["handler"] # "pco" /\ orders[e].t_ord = <<>>) =>
              LET n == IF Len(orders[e].tgt) < MAX_TARGETS THEN Len(orders[e].tgt)
                       ELSE MAX_TARGETS
                  tq == orders'[e].t_q
                  to == orders'[e].t_ord
              IN  /\ Len(to) = Len(tq)
                  /\ Len(tq) <= n
                  /\ Sum(tq) <= orders[e].qty
                  /\ Len(tq) = n =>
                        /\ Sum(tq) = orders[e].qty
                        /\ \A i \in 1..(n - 1) :
                              IsHalf(IF i = 1 THEN orders[e].qty ELSE tq[i - 1], tq[i])
                        /\ \A i \in 1..n :
                              /\ xorders'[to[i]].price = orders[e].tgt[i]
                              /\ xorders'[to[i]].qty = tq[i]]_vars

\* ================================================ further claims under Spec (5)

\* the fill of the tracked entry e was handled to the end, NEW_ORDER_TIMEOUT has passed
\* and its position is open
Settled(e) ==
    /\ is_entry(e)
    /\ e \in hist.seen
    /\ pc["handler"] = "idle"
    /\ now - orders[e].crt >= NEW_ORDER_TIMEOUT
    /\ xorders[e].status = "FILLED"
    /\ xpos[PosKey(orders[e].sym, PositionSide(orders[e].side))] > 0

\* the entry has no stop-loss, or fewer take-profits than targets (up to MAX_TARGETS)
NoStopLoss(e) == orders[e].s_ord = NoOrd

FewTargets(e) ==
    Len(orders[e].t_ord) < (IF Len(orders[e].tgt) < MAX_TARGETS THEN Len(orders[e].tgt)
                            ELSE MAX_TARGETS)

\* C24: a reconciliation pass whose requests the exchange all accepts re-attempts the
\* bracket legs that the handling of the entry's fill left missing, the position being
\* open: a missing stop-loss is among the stop-losses the pass goes on to place, and a
\* missing take-profit is created.
C24_LegRetried ==
    [][\A e \in DOMAIN orders :
          (ReconPass /\ ~hist'.faults /\ Settled(e)) =>
              /\ NoStopLoss(e) =>
                    /\ pc'["watcher"] = "w_sl"
                    /\ \E i \in 1..Len(loc'["watcher"].todo) : loc'["watcher"].todo[i].id = e
              /\ FewTargets(e) =>
                    /\ e \in DOMAIN orders'
                    /\ Len(orders'[e].t_ord) > Len(orders[e].t_ord)]_vars

\* ============================================ further claims under SpecSignal

\* the mark price is past the corrected signal's max_entry in the direction of profit
Crossed ==
    \/ is_long(sig) /\ 5 * mark > 5 * sig.entry + (sig.targets[1] - sig.entry)
    \/ is_short(sig) /\ 5 * mark < 5 * sig.entry + (sig.targets[1] - sig.entry)

\* the mark price has reached the corrected signal's entry (the near edge of its entries)
Reached ==
    \/ is_long(sig) /\ mark >= sig.entries[1]
    \/ is_short(sig) /\ mark <= Last(sig.entries)

Rejected(p) == procs[p].pc = "place" /\ procs'[p].pc = "failed"

\* C26: when the exchange rejects the entry order with an error other than "order would
\* trigger immediately", the attempt is a failure that ends the processing of the
\* signal: no entry record is added, the signal is not tried again, and the key
\* registered for it is no longer in the cache.
C26_TerminalFailure ==
    [][\A p \in DOMAIN procs :
          Rejected(p) =>
              /\ orders' = orders
              /\ procs'[p].oid = NoOrd
              /\ Done(p)'
              /\ cache_key(procs[p].raw) \notin DOMAIN sig_cache']_vars

\* ------------------------------------------------ a quantity that cannot be bought (SpecSizing)
\* One signal for ADA whose mark price is at first so far below the entry that the
\* rounded quantity costs more than PRICE_SLIPPAGE times the funds allocated.
InitSizing ==
    /\ sig = None /\ orig = None /\ mark = 0 /\ spc = "off" /\ decision = NoDecision
    /\ balance = 1000000
    /\ procs = <<Proc(SigA)>>
    /\ clocks = <<>>
    /\ sig_cache = <<>>
    /\ prices = [coin \in Symbols |-> IF coin = "ADA" THEN 60000 ELSE 95000]
    /\ orders = <<>> /\ xorders = <<>> /\ xpos = NoPositions /\ events = <<>>
    /\ olock = Free /\ pc = [t \in Tasks |-> "off"] /\ loc = [t \in Tasks |-> NoLocal]
    /\ nextId = 1 /\ now = 0 /\ cancelReq = {} /\ createReq = 0
    /\ open_symbols = Unbound /\ streams = {} /\ hist = InitHist

SpecSizing == InitSizing /\ [][NextAdmit]_vars

\* ================================================ claims under SpecSizing

\* in this step _place_order of task p raises InsufficientQuantityException
Invalid(p) ==
    /\ procs[p].pc = "place" /\ procs'[p].pc # "place"
    /\ prices[CoinOf(p)] # None
    /\ procs'[p].sig # procs[p].sig
    /\ place_decision(correct(procs[p].sig, prices[CoinOf(p)]), prices[CoinOf(p)],
                      balance).kind = "InsufficientQuantity"

\* C27: once _place_order has raised InsufficientQuantityException for a signal, it is
\* not invoked for that signal again.
C27_NoRetryInvalid ==
    [][\A p \in DOMAIN procs : Invalid(p) => procs'[p].pc # "sleep"]_vars

\* ================================================ further claims under SpecAdmit (4)

\* C28: a signal is corrected once: on an attempt after the first, its entries, stop-loss
\* and targets have the values the first attempt gave them.
C28_CorrectedOnce ==
    [][\A p \in DOMAIN procs :
          (procs[p].pc = "place" /\ procs[p].sig.corrected) =>
              /\ procs'[p].sig.entries = procs[p].sig.entries
              /\ procs'[p].sig.sl = procs[p].sig.sl
              /\ procs'[p].sig.targets = procs[p].sig.targets]_vars

\* ================================================ further claims under Spec (6)

\* a filled entry the watchdog looks at (lines 553-558) whose position is gone
NoPosition(e) ==
    /\ is_entry(e)
    /\ e \notin OpenOrders(xorders)
    /\ ~((now - orders[e].crt) < NEW_ORDER_TIMEOUT)
    /\ orders[e].s_ord # NoOrd
    /\ xpos[PosKey(orders[e].sym, PositionSide(orders[e].side))] = 0

\* C29: a reconciliation pass removes a filled entry without a position and all the
\* child records of that entry, and asks for no order to be created for it.
C29_NoPositionRemoved ==
    [][ReconPass =>
          \A e \in DOMAIN orders :
              NoPosition(e) =>
                  /\ Family(e) \cap DOMAIN orders' = {}
                  /\ \A id \in DOMAIN xorders' \ DOMAIN xorders :
                        xorders'[id].sym # orders[e].sym
                  /\ {x \in DOMAIN orders : is_entry(x)} = {e} => createReq' = 0]_vars

\* a filled entry the watchdog looks at (lines 553-558) whose position exists
HasPosition(e) ==
    /\ is_entry(e)
    /\ e \notin OpenOrders(xorders)
    /\ ~((now - orders[e].crt) < NEW_ORDER_TIMEOUT)
    /\ orders[e].s_ord # NoOrd
    /\ xpos[PosKey(orders[e].sym, PositionSide(orders[e].side))] # 0

\* the exchange has the order c neither open nor FILLED
Missing(c) ==
    /\ c \notin OpenOrders(xorders)
    /\ c \in DOMAIN xorders => xorders[c].status # "FILLED"

MissingTargets ==
    {<<e, i>> \in (DOMAIN orders) \X (1..MAX_TARGETS) :
        /\ HasPosition(e)
        /\ i <= Len(orders[e].t_ord)
        /\ Missing(orders[e].t_ord[i])}

\* C30: a reconciliation pass in which the exchange accepts every request replaces each
\* take-profit of a filled entry with a position that is neither open nor FILLED by one
\* new limit order at the price and quantity of that take-profit, tgt[i] and t_q[i],
\* whose id takes the place of the old one in t_ord; and for a stop-loss that is
\* neither open nor FILLED the watchdog goes on to create a stop-loss after the pass.
C30_Replaced ==
    [][(ReconPass /\ ~hist'.faults) =>
          /\ \A m \in MissingTargets :
                LET e == m[1]
                    i == m[2]
                    old == orders[e].t_ord[i]
                IN  /\ e \in DOMAIN orders'
                    /\ LET new == orders'[e].t_ord[i]
                       IN  /\ new \notin DOMAIN xorders
                           /\ new \in DOMAIN xorders'
                           /\ new \in DOMAIN orders'
                           /\ orders'[new] = ChildRecord(e, FALSE)
                           /\ xorders'[new].kind = "LIMIT"
                           /\ xorders'[new].status = "NEW"
                           /\ xorders'[new].price = orders[e].tgt[i]
                           /\ xorders'[new].qty = orders[e].t_q[i]
                           /\ old \in DOMAIN xorders =>
                                 /\ xorders'[new].price = xorders[old].price
                                 /\ xorders'[new].qty = xorders[old].qty
          /\ Cardinality(DOMAIN xorders' \ DOMAIN xorders) = Cardinality(MissingTargets)
          /\ \A e \in DOMAIN orders :
                (HasPosition(e) /\ Missing(orders[e].s_ord)) =>
                    /\ pc'["watcher"] = "w_sl"
                    /\ \E k \in 1..Len(loc'["watcher"].todo) :
                          loc'["watcher"].todo[k].id = e]_vars

\* ================================================ further claims under Spec (7)

\* take-profit i of the entry e is FILLED on the exchange and the map does not know it
MissedFill(e, i) ==
    /\ HasPosition(e)
    /\ i <= Len(orders[e].t_ord)
    /\ orders[e].t_ord[i] \in DOMAIN xorders
    /\ xorders[orders[e].t_ord[i]].status = "FILLED"
    /\ orders[e].t_ord[i] \in DOMAIN orders
    /\ ~orders[orders[e].t_ord[i]].filled

\* C31: a reconciliation pass that finds a take-profit FILLED whose fill the map does
\* not know makes the transition of the fill event: for the final take-profit the
\* entry and its children are removed, for another one the watchdog goes on to move
\* the stop-loss of the entry, also when the old stop-loss is still open.
C31_SameTransition ==
    [][(ReconPass /\ ~hist'.faults) =>
          \A e \in DOMAIN orders : \A i \in 1..MAX_TARGETS :
              MissedFill(e, i) =>
                  IF i = Len(orders[e].t_ord)
                  THEN Family(e) \cap DOMAIN orders' = {}
                  ELSE /\ pc'["watcher"] = "w_sl"
                       /\ \E k \in 1..Len(loc'["watcher"].todo) :
                             /\ loc'["watcher"].todo[k].id = e
                             /\ loc'["watcher"].todo[k].tp # NoOrd]_vars

\* this step is the expiry step of the watchdog
ExpiryStep == pc["watcher"] = "w_streams" /\ pc'["watcher"] = "w_recon"

\* C32: the expiry step neither removes nor cancels a wait entry that was filled (its
\* stop-loss is recorded in s_ord), however old it is and whether or not it has
\* take-profits.
C32_ExpiryOnlyUnfilled ==
    [][ExpiryStep =>
          \A e \in DOMAIN orders :
              (is_wait(e) /\ orders[e].s_ord # NoOrd) =>
                  /\ e \in DOMAIN orders'
                  /\ e \notin cancelReq' \ cancelReq]_vars

\* ------------------------------------------------ the price feed (SpecFeed)
\* One signal for ADA is placed while the watchdog runs its cycles.  _place_order is
\* taken in two steps here, its line 240 and the rest, with the awaits of lines 244
\* and 251 between them; the watchdog has no await between the answer of
\* futures_get_open_orders and the reset of the streams when no stop-loss is to be
\* placed, so the tasks run while it sleeps or waits for the exchange ("w_recon").

InitFeed ==
    /\ sig = None /\ orig = None /\ mark = 0 /\ spc = "off" /\ decision = NoDecision
    /\ balance = 1000000
    /\ procs = <<Proc(SigA)>>
    /\ clocks = <<>>
    /\ sig_cache = <<>>
    /\ prices = [coin \in Symbols |-> None]
    /\ orders = <<>> /\ xorders = <<>> /\ xpos = NoPositions /\ events = <<>>
    /\ olock = Free
    /\ pc = [t \in Tasks |-> IF t = "watcher" THEN "w_recon" ELSE "idle"]
    /\ loc = [t \in Tasks |-> NoLocal]
    /\ nextId = 1 /\ now = 0 /\ cancelReq = {} /\ createReq = 0
    /\ open_symbols = Unbound /\ streams = {} /\ hist = InitHist

\* line 240, _subscribe_futures(signal.coin): the coin is added to the streams, and
\* the task goes on to poll for its price
Subscribe(p) ==
    /\ procs[p].pc = "place"
    /\ procs' = [procs EXCEPT ![p].pc = "poll"]
    /\ streams' = streams \cup {CoinOf(p)}
    /\ UNCHANGED <<clocks, sig_cache, prices, balance, orders, xorders, nextId, now>>
    /\ UNCHANGED <<sig, orig, mark, spc, decision, xpos, events, olock, pc, loc, cancelReq,
                   createReq, open_symbols, hist>>

\* _streamer, lines 653-666: the stream reports a price of a subscribed symbol
Streamer ==
    /\ \E coin \in streams \cap Symbols : \E v \in Marks \ {prices[coin]} :
          prices' = [prices EXCEPT ![coin] = v]
    /\ UNCHANGED <<procs, clocks, sig_cache, balance, orders, xorders, nextId, now>>
    /\ UNCHANGED AdmRest

Asleep == pc["watcher"] = "w_recon"

NextFeed ==
    \/ Asleep /\ \E p \in DOMAIN procs : Gather(p)
    \/ Asleep /\ \E p \in DOMAIN procs : Acquire(p)
    \/ Asleep /\ \E p \in DOMAIN procs : Register(p)
    \/ Asleep /\ \E p \in DOMAIN procs : Subscribe(p)
    \/ Asleep /\ \E p \in DOMAIN procs : PlaceBody(p, "poll") /\ UNCHANGED streams
    \/ Asleep /\ \E p \in DOMAIN procs : Wake(p)
    \/ Streamer
    \/ W_Recon
    \/ W_Expire

SpecFeed == InitFeed /\ [][NextFeed]_vars

\* ================================================ claims under SpecFeed

\* C33: when the watchdog drops a symbol from the streams, the cached price of the
\* symbol is removed, so that a later _place_order waits for a new price.
C33_PriceDropped ==
    [][ExpiryStep => \A coin \in streams \ streams' : prices'[coin] = None]_vars

\* C39: while a placement task has subscribed its coin and has not yet submitted its
\* entry order, no step takes the coin out of the streams.
C39_SubscriptionKept ==
    [][\A p \in DOMAIN procs :
          (procs[p].pc = "poll" /\ CoinOf(p) \in streams) => CoinOf(p) \in streams']_vars

\* ================================================ further claims under Spec (8)

\* the child c has filled: the exchange says so, or its record does
HasFilled(c) ==
    \/ c \in DOMAIN xorders /\ xorders[c].status = "FILLED"
    \/ c \in DOMAIN orders /\ orders[c].filled

\* the entry e is done with: its stop-loss has filled, or it has take-profits and
\* all of them have filled
Finished(e) ==
    \/ HasFilled(orders[e].s_ord)
    \/ /\ orders[e].t_ord # <<>>
       /\ \A i \in 1..Len(orders[e].t_ord) : HasFilled(orders[e].t_ord[i])

\* C34: a reconciliation pass neither removes the record of an entry whose position is
\* open nor cancels its open stop-loss, unless the stop-loss has filled or the entry has
\* take-profits and all of them have filled.
C34_KeepsProtected ==
    [][ReconPass =>
          \A e \in DOMAIN orders :
              (/\ is_entry(e)
               /\ xpos[PosKey(orders[e].sym, PositionSide(orders[e].side))] # 0
               /\ ~Finished(e)) =>
                  /\ e \in DOMAIN orders'
                  /\ orders[e].s_ord \in OpenOrders(xorders) =>
                        /\ orders[e].s_ord \in OpenOrders(xorders')
                        /\ orders[e].s_ord \notin cancelReq' \ cancelReq]_vars

\* ================================================ further claims under SpecClose (2)

\* the entry e was filled, its stop-loss is recorded and its position is open
OpenPosition(e) ==
    /\ is_entry(e)
    /\ e \in DOMAIN xorders /\ xorders[e].status = "FILLED"
    /\ orders[e].s_ord # NoOrd
    /\ xpos[PosKey(orders[e].sym, PositionSide(orders[e].side))] # 0

\* C35: whatever the state close_trades(tag, coin) is called in, when the exchange
\* accepts its orders it closes the position of every filled entry it is about, and
\* cancels no stop-loss of an entry whose position it leaves open - also for an entry
\* with a stop-loss and no take-profit.
C35_ClosesPosition ==
    \A tag \in Tags, coin \in {AnyCoin} \cup Coins :
        LET ids == Matching(orders, tag, coin)
            res == CloseEntries(orders, xorders, xpos, IdSeq(ids), TRUE, {}, {})
        IN  \A e \in ids :
                OpenPosition(e) =>
                    LET k == PosKey(orders[e].sym, PositionSide(orders[e].side))
                    IN  /\ res.xpos[k] = 0
                        /\ orders[e].s_ord \in res.cancels => res.xpos[k] = 0

\* this step is close_trades(tag, coin)
CloseStep(tag, coin) ==
    /\ Matching(orders, tag, coin) # {}
    /\ pc' = pc /\ events' = events
    /\ \E accept \in BOOLEAN :
          LET res == CloseEntries(orders, xorders, xpos,
                                  IdSeq(Matching(orders, tag, coin)), accept, {}, {})
          IN  /\ orders' = res.orders
              /\ xorders' = res.xorders
              /\ xpos' = res.xpos
              /\ cancelReq' = cancelReq \cup res.cancels

\* C36: after close_trades(tag, coin) the map holds no record of an entry it is about
\* nor of a child of such an entry.
C36_ClosedRemoved ==
    [][\A tag \in Tags, coin \in {AnyCoin} \cup Coins :
          CloseStep(tag, coin) =>
              \A e \in Matching(orders, tag, coin) :
                  Family(e) \cap DOMAIN orders' = {}]_vars

\* ================================================ further claims under Spec (9)

\* C37: the watcher task survives a reconciliation that raises, in the first cycle as
\* in any other, and so goes on to run its cycles: it is never dead.
C37_WatcherSurvives == pc["watcher"] # "dead"

\* C38: for every tracked entry, t_ord and t_q have the same length, and the order
\* t_ord[i] was placed at the price tgt[i] with the quantity t_q[i].
C38_Aligned ==
    \A e \in DOMAIN orders :
        is_entry(e) =>
            /\ Len(orders[e].t_ord) = Len(orders[e].t_q)
            /\ \A i \in 1..Len(orders[e].t_ord) :
                  orders[e].t_ord[i] \in DOMAIN xorders =>
                      /\ i <= Len(orders[e].tgt)
                      /\ xorders[orders[e].t_ord[i]].price = orders[e].tgt[i]
                      /\ xorders[orders[e].t_ord[i]].qty = orders[e].t_q[i]

====
